---- MODULE Spec2Model ----
(***************************************************************************)
(* Model of platform_cli: a click command-line tool that guards a slice    *)
(* of a cloud provider (EC2 instances, S3 buckets, Route53 zones).         *)
(* The provider is the state; every command invocation is one action.      *)
(* A command's result is recorded in the observation variables cmd, tok,   *)
(* yes, calls, exc, warned, reported. Two create invocations running at    *)
(* the same time are modelled step by step with pc and caps.               *)
(***************************************************************************)
EXTENDS Integers, Sequences, FiniteSets, TLC

\* ---------------------------------------------------------------- bounds
\* number of instance identifiers the provider can hand out
MaxInst == 3
\* longest token list given to terminate
MaxTokens == 2

Ids == 1..MaxInst
\* Name tag values given to create, and the names usable as tokens
Names == {"web"}
TokenNames == Names \cup {"db"}

\* the create invocations that may run at the same time
Procs == {"p1", "p2"}

\* ------------------------------------------------------------- variables
VARIABLES
    inst,      \* provider: id -> [st, tags]; st = "none" when the id is unused
    bkt,       \* provider: bucket name -> bucket
    zone,      \* provider: hosted zone id -> zone
    cmd,       \* observation: last command
    tok,       \* observation: the tokens given to it
    yes,       \* observation: --yes given
    calls,     \* observation: provider calls of the invocation, in order
    exc,       \* observation: what left the command function
    warned,    \* observation: identifiers a refusal warning was printed for
    reported,  \* observation: identifiers listed in an ambiguity report
    asked,     \* observation: identifiers named in the confirmation prompt
    answer,    \* observation: the operator's answer, "none" when not asked
    pc,        \* concurrent create processes: where each one stands
    caps       \* concurrent create processes: the count each one read

vars == <<inst, bkt, zone, cmd, tok, yes, calls, exc, warned, reported, asked,
          answer, pc, caps>>
procs == <<pc, caps>>
obs == <<cmd, tok, yes, calls, exc, warned, reported, asked, answer>>

\* ------------------------------------------------------------ tag policy
DEFAULT_TAGS == [CreatedBy |-> "project-cli"]

Tag(k, v) == [Key |-> k, Value |-> v]

build_tag_list_NoAttribution(owner, project, env) == <<Tag("Owner", owner)>>
build_tag_list(owner, project, env) ==
    <<Tag("CreatedBy", DEFAULT_TAGS.CreatedBy), Tag("Owner", owner)>>
    \o (IF project # "" THEN <<Tag("Project", project)>> ELSE <<>>)
    \o (IF env # "" THEN <<Tag("Environment", env)>> ELSE <<>>)

\* any(t["Key"] == "CreatedBy" and t["Value"] == "project-cli" for t in Tags)
TagAllowed_NoCheck(tags) == TRUE
TagAllowed(tags) ==
    \E k \in 1..Len(tags) :
        tags[k].Key = "CreatedBy" /\ tags[k].Value = "project-cli"

\* provider-side tag filter {"Name": "tag:<k>", "Values": [v]}
HasTag(tags, k, v) == \E j \in 1..Len(tags) : tags[j] = Tag(k, v)

\* ------------------------------------------------------------ exceptions
\* botocore: ClientError and the BotoCoreError family are unrelated classes
Errs == {"ClientError", "NoCredentialsError", "EndpointConnectionError",
         "ParamValidationError"}
AllExceptions == Errs \cup {"OSError", "IndexError"}

\* one provider call of the invocation may fail: the fault names the call
\* site and the exception the SDK raises there
NoFault == [site |-> "none", kind |-> "ok"]
Faults(sites) == {NoFault} \cup [site : sites, kind : Errs]
             \cup {[site |-> "session", kind |-> "ProfileNotFound"]}
Raised(f, site) == IF f.site = site THEN f.kind ELSE "ok"

\* an except clause: a caught exception becomes SystemExit(2), any other
\* leaves the command function
Handle(kind, caught) == IF kind \in caught THEN "SystemExit" ELSE kind

\* process exit status: 0 on return, 2 on SystemExit(2), 1 when an
\* exception (click.Abort included) leaves the command; click itself ends a
\* command whose arguments it rejects with status 2
ExitOf(e) ==
    IF e = "none" THEN 0
    ELSE IF e \in {"SystemExit", "UsageError"} THEN 2 ELSE 1
exit == ExitOf(exc)

\* ------------------------------------------------------- sequence helpers
RECURSIVE SortedSeq(_)
SortedSeq(S) ==
    IF S = {} THEN <<>>
    ELSE LET m == CHOOSE x \in S : \A y \in S : x <= y
         IN <<m>> \o SortedSeq(S \ {m})

Range(s) == {s[k] : k \in 1..Len(s)}

\* "for iid in ids: if iid not in seen: resolved_ids.append(iid)"
Dedupe_Keep(s, seen) == s
RECURSIVE Dedupe(_, _)
Dedupe(s, seen) ==
    IF s = <<>> THEN <<>>
    ELSE IF Head(s) \in seen THEN Dedupe(Tail(s), seen)
         ELSE <<Head(s)>> \o Dedupe(Tail(s), seen \cup {Head(s)})

RECURSIVE Flatten(_)
Flatten(ss) == IF ss = <<>> THEN <<>> ELSE Head(ss) \o Flatten(Tail(ss))

\* ---------------------------------------------------------------- tokens
\* a token is an instance identifier (id # 0) or a Name tag value
IdTok(i) == [id |-> i, nm |-> ""]
NameTok(n) == [id |-> 0, nm |-> n]
Tokens == {IdTok(i) : i \in Ids} \cup {NameTok(n) : n \in TokenNames}
\* _ID_RE.match(t)
IsIdToken(t) == t.id # 0

\* --------------------------------------------------------- provider reads
Exists(w, i) == w[i].st # "none"

\* one provider call in the log
Call(op, nm, arg, ret, res) ==
    [op |-> op, nm |-> nm, arg |-> arg, ret |-> ret, res |-> res]

\* describe_instances(Filters=[tag:CreatedBy=project-cli, tag:Name=name])
_resolve_name_to_ids(w, name) ==
    SortedSeq({i \in Ids : /\ Exists(w, i)
                           /\ HasTag(w[i].tags, "CreatedBy", "project-cli")
                           /\ HasTag(w[i].tags, "Name", name)})

\* describe_instances(InstanceIds=ids): the provider rejects the whole call
\* when an identifier does not exist
DescribeOk(w, ids) == \A k \in 1..Len(ids) : Exists(w, ids[k])
DescribeResult(w, ids) == SortedSeq({i \in Range(ids) : Exists(w, i)})

\* _count_running_cli_instances: tag:CreatedBy=project-cli and state in
\* {pending, running}
_count_running_cli_instances_OnlyRunning(w) ==
    Cardinality({i \in Ids : /\ HasTag(w[i].tags, "CreatedBy", "project-cli")
                             /\ w[i].st = "running"})
_count_running_cli_instances(w) ==
    Cardinality({i \in Ids : /\ HasTag(w[i].tags, "CreatedBy", "project-cli")
                             /\ w[i].st \in {"pending", "running"}})

\* ------------------------------------------------- provider: S3, Route53
Buckets == {"mine", "theirs"}
NoBucket == [exists |-> FALSE, tags |-> <<>>, objs |-> {}, enc |-> FALSE,
             pab |-> "unset", policy |-> FALSE]
Zones == {"Z1", "Z2"}
NoZone == [exists |-> FALSE, name |-> <<>>, tags |-> <<>>, rrs |-> {}]

\* ------------------------------------------------------------------ Init
NoInstance == [st |-> "none", tags |-> <<>>]
\* an instance made outside the tool: no CreatedBy=project-cli tag
ForeignTags == <<Tag("CreatedBy", "terraform"), Tag("Name", "web")>>

ObsInit ==
    /\ cmd = "none"
    /\ tok = <<>>
    /\ yes = FALSE
    /\ calls = <<>>
    /\ exc = "none"
    /\ warned = {}
    /\ reported = <<>>
    /\ asked = <<>>
    /\ answer = "none"
    /\ pc = [p \in Procs |-> "idle"]
    /\ caps = [p \in Procs |-> 0]

Init ==
    /\ \E fst \in {"none", "running", "stopped"} :
         inst = [i \in Ids |->
                   IF i = 1 /\ fst # "none"
                   THEN [st |-> fst, tags |-> ForeignTags]
                   ELSE NoInstance]
    /\ bkt = [b \in Buckets |-> NoBucket]
    /\ zone = [z \in Zones |-> NoZone]
    /\ ObsInit

\* --------------------------------------------------------- single target
\* start/stop/describe: "Resolve to exactly one ID"
\* result: the calls made, what was raised, the target and the report
Resolution_First(w, t, f) ==
    IF IsIdToken(t)
    THEN [calls |-> <<>>, exc |-> "none", target |-> <<t.id>>, rep |-> <<>>]
    ELSE LET r == Raised(f, "resolve")
             ids == _resolve_name_to_ids(w, t.nm)
         IN IF r # "ok"
            THEN [calls |-> <<Call("describe_instances", t.nm, <<>>, <<>>, r)>>,
                  exc |-> r, target |-> <<>>, rep |-> <<>>]
            ELSE [calls |-> <<Call("describe_instances", t.nm, <<>>, ids,
                                   "ok")>>,
                  exc |-> IF Len(ids) = 0 THEN "SystemExit" ELSE "none",
                  target |-> IF Len(ids) >= 1 THEN <<ids[1]>> ELSE <<>>,
                  rep |-> <<>>]
Resolution(w, t, f) ==
    IF IsIdToken(t)
    THEN [calls |-> <<>>, exc |-> "none", target |-> <<t.id>>, rep |-> <<>>]
    ELSE LET r == Raised(f, "resolve")
             ids == _resolve_name_to_ids(w, t.nm)
         IN IF r # "ok"
            THEN [calls |-> <<Call("describe_instances", t.nm, <<>>, <<>>, r)>>,
                  exc |-> r, target |-> <<>>, rep |-> <<>>]
            ELSE [calls |-> <<Call("describe_instances", t.nm, <<>>, ids, "ok")>>,
                  exc |-> IF Len(ids) # 1 THEN "SystemExit" ELSE "none",
                  target |-> IF Len(ids) = 1 THEN ids ELSE <<>>,
                  rep |-> IF Len(ids) > 1 THEN ids ELSE <<>>]

\* the tag read of start/stop: describe_instances(InstanceIds=target_ids)
\* inside try/except ClientError
TagReadCaught == {"ClientError"}
TagRead_Cached(w, target, f) == [calls |-> <<>>, exc |-> "none"]
TagRead(w, target, f) ==
    LET r == IF Raised(f, "describe") # "ok" THEN Raised(f, "describe")
             ELSE IF ~DescribeOk(w, target) THEN "ClientError" ELSE "ok"
        shown == SelectSeq(DescribeResult(w, target),
                           LAMBDA i : TagAllowed(w[i].tags))
    IN IF r # "ok"
       THEN [calls |-> <<Call("describe_instances", "", target, <<>>, r)>>,
             exc |-> Handle(r, TagReadCaught)]
       ELSE [calls |-> <<Call("describe_instances", "", target, shown, "ok")>>,
             exc |-> IF shown = <<>> THEN "SystemExit" ELSE "none"]

\* the final try block of start/stop/terminate ends in "except Exception"
MutateCaught == AllExceptions

SingleTargetSites == {"resolve", "describe", "mutate"}

\* the provider's state transitions (external to the tool): a terminated
\* instance can be neither started nor stopped
ProviderRejects(w, ids) == \E k \in 1..Len(ids) : w[ids[k]].st = "terminated"
ProviderStart(st) == IF st = "stopped" THEN "pending" ELSE st
ProviderStop(st) == IF st \in {"pending", "running"} THEN "stopped" ELSE st

\* what the mutating call at the end of a command raises
MutateResult(w, ids, f) ==
    IF Raised(f, "mutate") # "ok" THEN Raised(f, "mutate")
    ELSE IF ProviderRejects(w, ids) THEN "ClientError" ELSE "ok"

\* ec2 start
start_instance ==
    /\ cmd = "none"
    /\ UNCHANGED procs
    /\ \E t \in Tokens, f \in Faults(SingleTargetSites) :
           LET res == Resolution(inst, t, f)
               rd  == TagRead(inst, res.target, f)
               m   == MutateResult(inst, res.target, f)
           IN /\ cmd' = "start"
              /\ UNCHANGED <<bkt, zone>>
              /\ tok' = <<t>>
              /\ yes' = FALSE
              /\ warned' = {}
              /\ asked' = <<>>
              /\ answer' = "none"
                     /\ IF f.site = "session"
                 THEN /\ calls' = <<>> /\ exc' = "SystemExit"
                      /\ reported' = <<>> /\ inst' = inst
                 ELSE IF res.exc # "none"
                 THEN /\ calls' = res.calls /\ exc' = res.exc
                      /\ reported' = res.rep /\ inst' = inst
                 ELSE IF rd.exc # "none"
                 THEN /\ calls' = res.calls \o rd.calls /\ exc' = rd.exc
                      /\ reported' = <<>> /\ inst' = inst
                 ELSE /\ calls' = res.calls \o rd.calls
                            \o <<Call("start_instances", "", res.target, <<>>, m)>>
                      /\ exc' = IF m = "ok" THEN "none" ELSE Handle(m, MutateCaught)
                      /\ reported' = <<>>
                      /\ inst' = IF m = "ok"
                                 THEN [inst EXCEPT ![res.target[1]].st =
                                         ProviderStart(inst[res.target[1]].st)]
                                 ELSE inst

\* ec2 stop
stop_instance ==
    /\ cmd = "none"
    /\ UNCHANGED procs
    /\ \E t \in Tokens, f \in Faults(SingleTargetSites) :
           LET res == Resolution(inst, t, f)
               rd  == TagRead(inst, res.target, f)
               m   == MutateResult(inst, res.target, f)
           IN /\ cmd' = "stop"
              /\ UNCHANGED <<bkt, zone>>
              /\ tok' = <<t>>
              /\ yes' = FALSE
              /\ warned' = {}
              /\ asked' = <<>>
              /\ answer' = "none"
                     /\ IF f.site = "session"
                 THEN /\ calls' = <<>> /\ exc' = "SystemExit"
                      /\ reported' = <<>> /\ inst' = inst
                 ELSE IF res.exc # "none"
                 THEN /\ calls' = res.calls /\ exc' = res.exc
                      /\ reported' = res.rep /\ inst' = inst
                 ELSE IF rd.exc # "none"
                 THEN /\ calls' = res.calls \o rd.calls /\ exc' = rd.exc
                      /\ reported' = <<>> /\ inst' = inst
                 ELSE /\ calls' = res.calls \o rd.calls
                            \o <<Call("stop_instances", "", res.target, <<>>, m)>>
                      /\ exc' = IF m = "ok" THEN "none" ELSE Handle(m, MutateCaught)
                      /\ reported' = <<>>
                      /\ inst' = IF m = "ok"
                                 THEN [inst EXCEPT ![res.target[1]].st =
                                         ProviderStop(inst[res.target[1]].st)]
                                 ELSE inst

\* ------------------------------------------------------------- terminate
\* _resolve_tokens_to_instance_ids: identifiers first, then the matches of
\* each name in the order given, de-duplicated keeping the first occurrence
IdsOf(tokens) ==
    LET sel == SelectSeq(tokens, IsIdToken)
    IN [k \in 1..Len(sel) |-> sel[k].id]
NamesOf(tokens) ==
    LET sel == SelectSeq(tokens, LAMBDA t : ~IsIdToken(t))
    IN [k \in 1..Len(sel) |-> sel[k].nm]

_resolve_tokens_to_instance_ids(w, tokens) ==
    LET ids == IdsOf(tokens)
        names == NamesOf(tokens)
        matched == [k \in 1..Len(names) |-> _resolve_name_to_ids(w, names[k])]
        found == SelectSeq([k \in 1..Len(names) |-> k],
                           LAMBDA k : matched[k] # <<>>)
        missing == SelectSeq([k \in 1..Len(names) |-> k],
                             LAMBDA k : matched[k] = <<>>)
    IN [resolved_ids |-> Dedupe(ids \o Flatten(matched), {}),
        not_found |-> [k \in 1..Len(missing) |-> names[missing[k]]],
        name_map |-> {<<names[found[k]], matched[found[k]]>> :
                          k \in 1..Len(found)},
        lookups |-> [k \in 1..Len(names) |->
                       Call("describe_instances", names[k], <<>>,
                            matched[k], "ok")]]

RECURSIVE SeqsUpTo(_, _)
SeqsUpTo(S, n) ==
    IF n = 0 THEN {<<>>}
    ELSE LET shorter == SeqsUpTo(S, n - 1)
         IN shorter \cup {Append(q, x) : q \in shorter, x \in S}
TokenLists == SeqsUpTo(Tokens, MaxTokens)

\* partition of the describe response by the CreatedBy tag
AllowedIds_All(w, described) == described
AllowedIds(w, described) ==
    SelectSeq(described, LAMBDA i : TagAllowed(w[i].tags))
RefusedIds(w, described) ==
    {i \in Range(described) : ~TagAllowed(w[i].tags)}

\* provider: terminate_instances moves every listed instance to terminated
ProviderTerminate(w, ids) ==
    [i \in Ids |-> IF i \in Range(ids) THEN [w[i] EXCEPT !.st = "terminated"]
                   ELSE w[i]]

\* operator input at the prompt: --yes given, or the typed answer
Confirmations == {"--yes", "yes", "no"}
\* confirm.strip().lower() in {"y", "yes"}
Affirmative_Always(a) == TRUE
Affirmative(a) == a \in {"y", "yes"}
\* "if not allowed_ids": nothing left to terminate
NothingToDo_Never(ids) == FALSE
NothingToDo(ids) == ids = <<>>

\* ec2 terminate
terminate_instances ==
    /\ cmd = "none"
    /\ UNCHANGED procs
    /\ \E toks \in TokenLists, c \in Confirmations,
       f \in Faults({"resolve", "describe", "mutate"}) :
           LET rt == _resolve_tokens_to_instance_ids(inst, toks)
               rfail == Raised(f, "resolve") # "ok" /\ NamesOf(toks) # <<>>
               d == IF Raised(f, "describe") # "ok" THEN Raised(f, "describe")
                    ELSE IF ~DescribeOk(inst, rt.resolved_ids) THEN "ClientError"
                    ELSE "ok"
               described == DescribeResult(inst, rt.resolved_ids)
               allowed_ids == AllowedIds(inst, described)
               m == Raised(f, "mutate")
               dcall(res, ret) ==
                   Call("describe_instances", "", rt.resolved_ids, ret, res)
           IN /\ cmd' = "terminate"
              /\ UNCHANGED <<bkt, zone>>
              /\ tok' = toks
              /\ yes' = (c = "--yes")
              /\ reported' = <<>>
              /\ IF toks = <<>> \/ f.site = "session"
                 THEN /\ calls' = <<>> /\ exc' = "SystemExit" /\ warned' = {}
                      /\ asked' = <<>> /\ answer' = "none" /\ inst' = inst
                 ELSE IF rfail
                 THEN /\ calls' = <<Call("describe_instances", NamesOf(toks)[1],
                                         <<>>, <<>>, f.kind)>>
                      /\ exc' = Handle(f.kind, {"ClientError"})
                      /\ warned' = {} /\ asked' = <<>> /\ answer' = "none"
                      /\ inst' = inst
                 ELSE IF rt.resolved_ids = <<>>
                 THEN /\ calls' = rt.lookups /\ exc' = "SystemExit" /\ warned' = {}
                      /\ asked' = <<>> /\ answer' = "none" /\ inst' = inst
                 ELSE IF d # "ok"
                 THEN /\ calls' = rt.lookups \o <<dcall(d, <<>>)>>
                      /\ exc' = Handle(d, {"ClientError"}) /\ warned' = {}
                      /\ asked' = <<>> /\ answer' = "none" /\ inst' = inst
                 ELSE IF NothingToDo(allowed_ids)
                 THEN /\ calls' = rt.lookups \o <<dcall("ok", allowed_ids)>>
                      /\ exc' = "SystemExit"
                      /\ warned' = RefusedIds(inst, described)
                      /\ asked' = <<>> /\ answer' = "none" /\ inst' = inst
                 ELSE IF c # "--yes" /\ ~Affirmative(c)
                 THEN /\ calls' = rt.lookups \o <<dcall("ok", allowed_ids)>>
                      /\ exc' = "none"
                      /\ warned' = RefusedIds(inst, described)
                      /\ asked' = allowed_ids /\ answer' = c /\ inst' = inst
                 ELSE /\ calls' = rt.lookups \o <<dcall("ok", allowed_ids)>>
                            \o <<Call("terminate_instances", "", allowed_ids,
                                      <<>>, m)>>
                      /\ exc' = IF m = "ok" THEN "none" ELSE Handle(m, MutateCaught)
                      /\ warned' = RefusedIds(inst, described)
                      /\ asked' = IF c = "--yes" THEN <<>> ELSE allowed_ids
                      /\ answer' = IF c = "--yes" THEN "none" ELSE c
                      /\ inst' = IF m = "ok" THEN ProviderTerminate(inst, allowed_ids)
                                 ELSE inst

\* -------------------------------------------------------------- describe
\* ec2 describe <id-or-name>: the read sits in a try block that ends in
\* "except Exception"; the tag check follows it
describe_instance ==
    /\ cmd = "none"
    /\ UNCHANGED procs
    /\ \E t \in Tokens, f \in Faults({"resolve", "describe"}) :
           LET res == Resolution(inst, t, f)
               d == IF Raised(f, "describe") # "ok" THEN Raised(f, "describe")
                    ELSE IF ~DescribeOk(inst, res.target) THEN "ClientError"
                    ELSE "ok"
               shown == AllowedIds(inst, DescribeResult(inst, res.target))
           IN /\ cmd' = "describe"
              /\ UNCHANGED <<bkt, zone>>
              /\ tok' = <<t>>
              /\ yes' = FALSE
              /\ warned' = {}
              /\ asked' = <<>>
              /\ answer' = "none"
              /\ inst' = inst
              /\ IF f.site = "session"
                 THEN calls' = <<>> /\ exc' = "SystemExit" /\ reported' = <<>>
                 ELSE IF res.exc # "none"
                 THEN calls' = res.calls /\ exc' = res.exc /\ reported' = res.rep
                 ELSE IF d # "ok"
                 THEN /\ calls' = res.calls
                            \o <<Call("describe_instances", "", res.target, <<>>, d)>>
                      /\ exc' = Handle(d, AllExceptions) /\ reported' = <<>>
                 ELSE /\ calls' = res.calls
                            \o <<Call("describe_instances", "", res.target, shown,
                                      "ok")>>
                      /\ exc' = IF shown = <<>> THEN "SystemExit" ELSE "none"
                      /\ reported' = <<>>

\* ---------------------------------------------------------------- create
ALLOWED_INSTANCE_TYPES == {"t3.micro", "t2.small"}
\* what the operator may type as INSTANCE_TYPE ("" = argument left out)
SizeInputs == {"t3.micro", "t2.small", "T3.MICRO", "m5.large", "t3.large", ""}
Lower(v) == IF v = "T3.MICRO" THEN "t3.micro" ELSE v

\* click.Choice(["t3.micro", "t2.small"], case_sensitive=False): the
\* matching choice, in its declared spelling, or "invalid" (usage error)
ClickChoice(v, choices) ==
    IF \E c \in choices : Lower(c) = Lower(v)
    THEN CHOOSE c \in choices : Lower(c) = Lower(v)
    ELSE "invalid"

\* the argument type check followed by the check against the allow-list
SizeAccepted_Any(v) == TRUE
SizeAccepted(v) ==
    /\ ClickChoice(v, {"t3.micro", "t2.small"}) # "invalid"
    /\ ClickChoice(v, {"t3.micro", "t2.small"}) \in ALLOWED_INSTANCE_TYPES

\* the cap check of create: cap >= 2 refuses
CapReached(cap) == cap >= 2

\* the operator at the key pair prompt: prompts disabled (--no-prompt), or a
\* key name typed that exists ("existing") or does not, the offer to create
\* it being accepted ("create") or not ("decline")
KeyModes == {"no-prompt", "existing", "create", "decline"}

\* _run_instance: tags of the new instance
RunTags(owner, project, env, name) ==
    Append(build_tag_list(owner, project, env), Tag("Name", name))

FreeIds == {i \in Ids : inst[i].st = "none"}

CreateSites == {"count", "ami1", "ami", "describe_key", "create_key", "run"}
CreateFaults == Faults(CreateSites) \cup {[site |-> "pem", kind |-> "OSError"]}

\* ec2 create <os> <size> --name <name>
create_instance ==
    /\ cmd = "none"
    /\ UNCHANGED procs
    /\ \E size \in SizeInputs, name \in Names, km \in KeyModes,
          f \in CreateFaults :
       LET cnt == Raised(f, "count")
           cap == _count_running_cli_instances(inst)
           countCall == Call("describe_instances", "", <<>>, <<>>, cnt)
           amiCalls ==
               IF f.site \in {"ami1", "ami"}
               THEN <<Call("get_parameter", "", <<>>, <<>>, f.kind)>>
                    \o <<Call("get_parameter", "", <<>>, <<>>,
                              IF f.site = "ami" THEN f.kind ELSE "ok")>>
               ELSE <<Call("get_parameter", "", <<>>, <<>>, "ok")>>
           dk == Raised(f, "describe_key")
           ck == Raised(f, "create_key")
           keyCalls ==
               IF km = "no-prompt" THEN <<>>
               ELSE <<Call("describe_key_pairs", "", <<>>, <<>>,
                           IF dk # "ok" THEN dk
                           ELSE IF km = "existing" THEN "ok"
                           ELSE "ClientError")>>
                    \o (IF dk = "ok" /\ km = "create"
                        THEN <<Call("create_key_pair", "", <<>>, <<>>, ck)>>
                        ELSE <<>>)
           keyFailed == /\ km # "no-prompt"
                        /\ \/ dk # "ok"
                           \/ km = "create" /\ (ck # "ok" \/ f.site = "pem")
           rn == Raised(f, "run")
           tags == RunTags("alice", "", "", name)
           done(c, e) ==
               /\ calls' = c /\ exc' = e /\ inst' = inst
       IN /\ cmd' = "create"
          /\ UNCHANGED <<bkt, zone>>
          /\ tok' = <<NameTok(size)>>
          /\ yes' = FALSE
          /\ warned' = {}
          /\ reported' = <<>>
          /\ asked' = <<>>
          /\ answer' = "none"
          /\ IF size = ""
             THEN done(<<>>, "SystemExit")
             ELSE IF ~SizeAccepted(size)
             THEN done(<<>>, "UsageError")
             ELSE IF f.site = "session"
             THEN done(<<>>, "SystemExit")
             ELSE IF cnt # "ok"
             THEN done(<<countCall>>,
                       Handle(cnt, {"NoCredentialsError", "ClientError"}))
             ELSE IF CapReached(cap)
             THEN done(<<countCall>>, "SystemExit")
             ELSE IF f.site = "ami"
             THEN done(<<countCall>> \o amiCalls, "SystemExit")
             ELSE IF keyFailed
             THEN /\ calls' = <<countCall>> \o amiCalls \o keyCalls
                  /\ exc' = "SystemExit"
                  /\ inst' = inst
             ELSE IF rn # "ok"
             THEN /\ calls' = <<countCall>> \o amiCalls \o keyCalls
                        \o <<Call("run_instances", name, <<>>, <<>>, rn)>>
                  /\ exc' = Handle(rn, AllExceptions)
                  /\ inst' = inst
             ELSE /\ FreeIds # {}
                  /\ LET new == CHOOSE i \in FreeIds :
                                    \A j \in FreeIds : i <= j
                     IN /\ calls' = <<countCall>> \o amiCalls \o keyCalls
                              \o <<Call("run_instances", name, <<>>,
                                        <<new>>, "ok")>>
                        /\ inst' = [inst EXCEPT ![new] =
                                      [st |-> "pending", tags |-> tags]]
                  /\ exc' = "none"

\* ==================================================================== S3
ForeignBucketTags == <<Tag("CreatedBy", "terraform"), Tag("Owner", "bob")>>
ObjKeys == {"o1", "o2"}

\* {t["Key"]: t["Value"] for t in TagSet}.get(k): the last pair with the key
DictGet(tags, k) ==
    IF \E j \in 1..Len(tags) : tags[j].Key = k
    THEN tags[CHOOSE j \in 1..Len(tags) :
                 tags[j].Key = k
                 /\ \A m \in (j+1)..Len(tags) : tags[m].Key # k].Value
    ELSE ""

\* provider: get_bucket_tagging fails with a ClientError for a missing
\* bucket (NoSuchBucket) and for a bucket without tags (NoSuchTagSet)
TagReadResult(f, present) ==
    IF Raised(f, "tagread") # "ok" THEN Raised(f, "tagread")
    ELSE IF ~present THEN "ClientError" ELSE "ok"

\* _bucket_has_cli_tag: ClientError -> False; any other exception leaves
\* the helper and the command
_bucket_has_cli_tag_KeyOnly(w, b, f) ==
    LET r == TagReadResult(f, w[b].exists /\ w[b].tags # <<>>)
    IN [call |-> Call("get_bucket_tagging", b, <<>>, <<>>, r),
        exc |-> IF r \in {"ok", "ClientError"} THEN "none" ELSE r,
        owned |-> r = "ok" /\ DictGet(w[b].tags, "CreatedBy") # ""]
_bucket_has_cli_tag_FailOpen(w, b, f) ==
    LET r == TagReadResult(f, w[b].exists /\ w[b].tags # <<>>)
    IN [call |-> Call("get_bucket_tagging", b, <<>>, <<>>, r),
        exc |-> IF r \in {"ok", "ClientError"} THEN "none" ELSE r,
        owned |-> \/ r = "ClientError"
                  \/ DictGet(w[b].tags, "CreatedBy") = DEFAULT_TAGS.CreatedBy]
_bucket_has_cli_tag(w, b, f) ==
    LET r == TagReadResult(f, w[b].exists /\ w[b].tags # <<>>)
    IN [call |-> Call("get_bucket_tagging", b, <<>>, <<>>, r),
        exc |-> IF r \in {"ok", "ClientError"} THEN "none" ELSE r,
        owned |-> /\ r = "ok"
                  /\ DictGet(w[b].tags, "CreatedBy") = DEFAULT_TAGS.CreatedBy]

\* s3 upload <bucket> <file> <key>
upload_object ==
    /\ cmd = "none"
    /\ UNCHANGED procs
    /\ \E b \in Buckets, key \in ObjKeys, f \in Faults({"tagread", "mutate"}) :
       LET chk == _bucket_has_cli_tag(bkt, b, f)
           m == IF Raised(f, "mutate") # "ok" THEN Raised(f, "mutate")
                ELSE IF ~bkt[b].exists THEN "ClientError" ELSE "ok"
       IN /\ cmd' = "upload"
          /\ tok' = <<b, key>>
          /\ yes' = FALSE
          /\ warned' = {} /\ reported' = <<>>
          /\ asked' = <<>> /\ answer' = "none"
          /\ UNCHANGED <<inst, zone>>
          /\ IF f.site = "session"
             THEN calls' = <<>> /\ exc' = "SystemExit" /\ bkt' = bkt
             ELSE IF chk.exc # "none"
             THEN calls' = <<chk.call>> /\ exc' = chk.exc /\ bkt' = bkt
             ELSE IF ~chk.owned
             THEN calls' = <<chk.call>> /\ exc' = "SystemExit" /\ bkt' = bkt
             ELSE /\ calls' = <<chk.call, Call("upload_file", b, <<key>>,
                                               <<>>, m)>>
                  /\ exc' = IF m = "ok" THEN "none"
                            ELSE Handle(m, AllExceptions)
                  /\ bkt' = IF m = "ok"
                            THEN [bkt EXCEPT ![b].objs = @ \cup {key}]
                            ELSE bkt

\* "if force:" the purge of objects and versions runs in force mode only
PurgeWanted_Always(force) == TRUE
PurgeWanted(force) == force

\* s3 delete <bucket> [--force] [--yes]
delete_bucket ==
    /\ cmd = "none"
    /\ UNCHANGED procs
    /\ \E b \in Buckets, force \in BOOLEAN, c \in Confirmations,
          f \in Faults({"tagread", "purge_versions", "purge", "mutate"}) :
       LET chk == _bucket_has_cli_tag(bkt, b, f)
           \* object_versions.delete(); on any exception objects.all().delete()
           pv == IF f.site \in {"purge_versions", "purge"} THEN f.kind ELSE "ok"
           po == Raised(f, "purge")
           purgeCalls ==
               IF ~PurgeWanted(force) THEN <<>>
               ELSE <<Call("object_versions.delete", b, <<>>, <<>>, pv)>>
                    \o (IF pv # "ok"
                        THEN <<Call("objects.delete", b, <<>>, <<>>, po)>>
                        ELSE <<>>)
           purged == PurgeWanted(force) /\ po = "ok"
           after == IF purged THEN [bkt EXCEPT ![b].objs = {}] ELSE bkt
           m == IF Raised(f, "mutate") # "ok" THEN Raised(f, "mutate")
                ELSE IF after[b].objs # {} THEN "ClientError" ELSE "ok"
       IN /\ cmd' = "s3-delete"
          /\ tok' = <<b, IF force THEN "--force" ELSE "">>
          /\ yes' = (c = "--yes")
          /\ warned' = {} /\ reported' = <<>> /\ asked' = <<>>
          /\ UNCHANGED <<inst, zone>>
          /\ IF f.site = "session"
             THEN /\ calls' = <<>> /\ exc' = "SystemExit" /\ bkt' = bkt
                  /\ answer' = "none"
             ELSE IF chk.exc # "none"
             THEN /\ calls' = <<chk.call>> /\ exc' = chk.exc /\ bkt' = bkt
                  /\ answer' = "none"
             ELSE IF ~chk.owned
             THEN /\ calls' = <<chk.call>> /\ exc' = "SystemExit"
                  /\ bkt' = bkt /\ answer' = "none"
             ELSE IF c = "no"
             THEN /\ calls' = <<chk.call>> /\ exc' = "Abort" /\ bkt' = bkt
                  /\ answer' = "no"
             ELSE IF PurgeWanted(force) /\ po # "ok"
             THEN /\ calls' = <<chk.call>> \o purgeCalls
                  /\ exc' = Handle(po, {"ClientError"})
                  /\ bkt' = bkt
                  /\ answer' = IF c = "--yes" THEN "none" ELSE "yes"
             ELSE /\ calls' = <<chk.call>> \o purgeCalls
                        \o <<Call("delete_bucket", b, <<>>, <<>>, m)>>
                  /\ exc' = IF m = "ok" THEN "none"
                            ELSE Handle(m, AllExceptions)
                  /\ bkt' = IF m = "ok" THEN [bkt EXCEPT ![b] = NoBucket]
                            ELSE after
                  /\ answer' = IF c = "--yes" THEN "none" ELSE "yes"

\* what the operator may type as VISIBILITY ("" = left out)
VisInputs == {"", "private", "public", "Public", "secret"}
\* (visibility or "private").lower()
Vis(v) == IF v = "" THEN "private" ELSE IF v = "Public" THEN "public" ELSE v

\* "if vis == "public": click.confirm(..., abort=True)"
NeedsConfirm_Never(vis) == FALSE
NeedsConfirm(vis) == vis = "public"
\* PublicAccessBlockConfiguration: all four settings True for a private
\* bucket, all four False for a public one
PabSetting_Open(vis) == "open"
PabSetting(vis) == IF vis = "private" THEN "blocked" ELSE "open"

\* the configuration steps after create_bucket; any subset of the calls of
\* one invocation may fail, all with the same exception
BucketSteps == {"create", "encryption", "tagging", "pab", "policy"}
BucketFaults ==
    {[sites |-> {}, kind |-> "ok"],
     [sites |-> {"session"}, kind |-> "ProfileNotFound"]}
    \cup [sites : SUBSET BucketSteps \ {{}}, kind : Errs]
Fails(f, site) == IF site \in f.sites THEN f.kind ELSE "ok"

StepOp(step) ==
    CASE step = "encryption" -> "put_bucket_encryption"
      [] step = "tagging" -> "put_bucket_tagging"
      [] step = "pab" -> "put_public_access_block"
      [] step = "policy" -> "put_bucket_policy"

\* a step in "try: ... except ClientError: warn": the steps of the list run
\* in order until one raises something that is not a ClientError
RECURSIVE BestEffort(_, _, _)
BestEffort(steps, f, b) ==
    IF steps = <<>> THEN [calls |-> <<>>, exc |-> "none", done |-> {}]
    ELSE LET r == Fails(f, Head(steps))
             c == Call(StepOp(Head(steps)), b, <<>>, <<>>, r)
             rest == BestEffort(Tail(steps), f, b)
         IN IF r \notin {"ok", "ClientError"}
            THEN [calls |-> <<c>>, exc |-> r, done |-> {}]
            ELSE [calls |-> <<c>> \o rest.calls, exc |-> rest.exc,
                  done |-> rest.done
                           \cup (IF r = "ok" THEN {Head(steps)} ELSE {})]

\* s3 create <name> [private|public]
create_bucket ==
    /\ cmd = "none"
    /\ UNCHANGED procs
    /\ \E b \in Buckets, v \in VisInputs, c \in {"yes", "no"},
          f \in BucketFaults :
       LET vis == Vis(v)
           cr == IF Fails(f, "create") # "ok" THEN Fails(f, "create")
                 ELSE IF bkt[b].exists THEN "ClientError" ELSE "ok"
           steps == IF vis = "private" THEN <<"encryption", "tagging", "pab">>
                    ELSE <<"encryption", "tagging", "pab", "policy">>
           be == BestEffort(steps, f, b)
           made == [exists |-> TRUE,
                    tags |-> IF "tagging" \in be.done
                             THEN build_tag_list("alice", "", "") ELSE <<>>,
                    objs |-> {},
                    enc |-> "encryption" \in be.done,
                    pab |-> IF "pab" \notin be.done THEN "unset"
                            ELSE PabSetting(vis),
                    policy |-> "policy" \in be.done]
       IN /\ cmd' = "s3-create"
          /\ tok' = <<b, v>>
          /\ yes' = FALSE
          /\ warned' = {} /\ asked' = <<>>
          /\ UNCHANGED <<inst, zone>>
          /\ IF vis \notin {"private", "public"}
             THEN /\ calls' = <<>> /\ exc' = "SystemExit" /\ bkt' = bkt
                  /\ answer' = "none" /\ reported' = <<>>
             ELSE IF NeedsConfirm(vis) /\ c = "no"
             THEN /\ calls' = <<>> /\ exc' = "Abort" /\ bkt' = bkt
                  /\ answer' = "no" /\ reported' = <<>>
             ELSE /\ answer' = IF NeedsConfirm(vis) THEN "yes" ELSE "none"
                  /\ IF "session" \in f.sites
                     THEN /\ calls' = <<>> /\ exc' = "SystemExit"
                          /\ bkt' = bkt /\ reported' = <<>>
                     ELSE IF cr # "ok"
                     THEN /\ calls' = <<Call("create_bucket", b, <<>>, <<>>,
                                             cr)>>
                          /\ exc' = Handle(cr, {"ClientError"})
                          /\ bkt' = bkt /\ reported' = <<>>
                     ELSE /\ calls' = <<Call("create_bucket", b, <<>>, <<>>,
                                             "ok")>> \o be.calls
                          /\ exc' = be.exc
                          /\ bkt' = [bkt EXCEPT ![b] = made]
                          /\ reported' = IF be.exc # "none" THEN <<>>
                                         ELSE IF vis = "private"
                                         THEN <<"PRIVATE">> ELSE <<"PUBLIC">>

InitS3 ==
    /\ inst = [i \in Ids |-> NoInstance]
    /\ zone = [z \in Zones |-> NoZone]
    /\ \E tags \in {<<>>, ForeignBucketTags}, objs \in {{}, {"o1"}} :
         bkt = [b \in Buckets |->
                  IF b = "theirs"
                  THEN [NoBucket EXCEPT !.exists = TRUE, !.tags = tags,
                                        !.objs = objs]
                  ELSE NoBucket]
    /\ ObsInit

\* =============================================================== Route53
\* strings the commands inspect are sequences of characters
Q == "\""
BS == "\\"
DOT == "."
RecNames == {<<"w">>, <<"w", DOT>>}
RecValues == {<<>>, <<"a">>, <<Q, "a", Q>>, <<"a", Q>>, <<Q>>, <<BS>>}
\* what the operator may type as RTYPE; MX is not among the choices
RTypeInputs == {"A", "TXT", "MX"}
RTypeChoices == {"A", "AAAA", "CNAME", "TXT"}
TTLs == {60, 300}
ForeignZoneTags == <<Tag("CreatedBy", "terraform")>>

\* name if name.endswith(".") else name + "."
NormalizeName(n) ==
    IF n # <<>> /\ n[Len(n)] = DOT THEN n ELSE Append(n, DOT)

\* json.dumps of a string: quotes around it, quote and backslash escaped
RECURSIVE JsonEscape(_)
JsonEscape(v) ==
    IF v = <<>> THEN <<>>
    ELSE (IF Head(v) \in {Q, BS} THEN <<BS, Head(v)>> ELSE <<Head(v)>>)
         \o JsonEscape(Tail(v))
JsonDumps(v) == <<Q>> \o JsonEscape(v) \o <<Q>>

\* value.startswith('"') and value.endswith('"')
IsQuoted(v) == v # <<>> /\ v[1] = Q /\ v[Len(v)] = Q

\* the value submitted for a record of the given type
RecordValue(rtype, v) ==
    IF rtype = "TXT" THEN (IF IsQuoted(v) THEN v ELSE JsonDumps(v)) ELSE v

\* _zone_is_cli_owned: list_tags_for_resource; ClientError -> False, any
\* other exception leaves the helper and the command
_zone_is_cli_owned_KeyOnly(w, z, f) ==
    LET r == TagReadResult(f, w[z].exists)
    IN [call |-> Call("list_tags_for_resource", z, <<>>, <<>>, r),
        exc |-> IF r \in {"ok", "ClientError"} THEN "none" ELSE r,
        owned |-> r = "ok" /\ DictGet(w[z].tags, "CreatedBy") # ""]
_zone_is_cli_owned(w, z, f) ==
    LET r == TagReadResult(f, w[z].exists)
    IN [call |-> Call("list_tags_for_resource", z, <<>>, <<>>, r),
        exc |-> IF r \in {"ok", "ClientError"} THEN "none" ELSE r,
        owned |-> /\ r = "ok"
                  /\ DictGet(w[z].tags, "CreatedBy") = DEFAULT_TAGS.CreatedBy]

RRSet(n, t, ttl, v) == [Name |-> n, Type |-> t, TTL |-> ttl, Value |-> v]
\* ChangeBatch={"Comment": ..., "Changes": [{"Action": ..., "ResourceRecordSet": ...}]}
Change(action, comment, rr) ==
    <<[Action |-> action, Comment |-> comment, rr |-> rr]>>

\* provider: UPSERT replaces the record set with the same (Name, Type)
ProviderUpsert(rrs, rr) ==
    {x \in rrs : ~(x.Name = rr.Name /\ x.Type = rr.Type)} \cup {rr}

\* provider: CREATE fails when a record set with the same (Name, Type)
\* exists, DELETE needs a record set equal to the one submitted
ProviderApply(rrs, ch) ==
    LET rr == ch[1].rr
        same == \E x \in rrs : x.Name = rr.Name /\ x.Type = rr.Type
    IN CASE ch[1].Action = "UPSERT" ->
              [res |-> "ok", rrs |-> ProviderUpsert(rrs, rr)]
         [] ch[1].Action = "CREATE" ->
              IF same THEN [res |-> "ClientError", rrs |-> rrs]
              ELSE [res |-> "ok", rrs |-> rrs \cup {rr}]
         [] ch[1].Action = "DELETE" ->
              IF rr \in rrs THEN [res |-> "ok", rrs |-> rrs \ {rr}]
              ELSE [res |-> "ClientError", rrs |-> rrs]

\* the "Action" each command submits
CreateRecordAction_Create == "CREATE"
CreateRecordAction == "UPSERT"
UpdateRecordAction_Create == "CREATE"
UpdateRecordAction == "UPSERT"
DeleteRecordAction == "DELETE"

\* the fault sites of the record commands
RecordSites == {"tagread", "mutate"}

\* the body of create_record on zone state w: the calls made, what leaves the
\* function and the zones afterwards
CreateRecordRun(w, z, n, t, v, ttl, f) ==
    LET chk == _zone_is_cli_owned(w, z, f)
        record_name == NormalizeName(n)
        record_value == RecordValue(t, v)
        rr == RRSet(record_name, t, ttl, record_value)
        ch == Change(CreateRecordAction, "project-cli create-record", rr)
        ap == ProviderApply(w[z].rrs, ch)
        m == IF Raised(f, "mutate") # "ok" THEN Raised(f, "mutate")
             ELSE ap.res
    IN IF t \notin RTypeChoices
       THEN [calls |-> <<>>, exc |-> "UsageError", zone |-> w]
       ELSE IF v = <<>> \/ f.site = "session"
       THEN [calls |-> <<>>, exc |-> "SystemExit", zone |-> w]
       ELSE IF chk.exc # "none"
       THEN [calls |-> <<chk.call>>, exc |-> chk.exc, zone |-> w]
       ELSE IF ~chk.owned
       THEN [calls |-> <<chk.call>>, exc |-> "SystemExit", zone |-> w]
       ELSE [calls |-> <<chk.call,
                         Call("change_resource_record_sets", z, ch, <<>>, m)>>,
             exc |-> IF m = "ok" THEN "none" ELSE Handle(m, AllExceptions),
             zone |-> IF m = "ok" THEN [w EXCEPT ![z].rrs = ap.rrs] ELSE w]

\* route53 create-record <zone> <name> <type> <value> [<ttl>]
create_record ==
    /\ cmd = "none"
    /\ UNCHANGED procs
    /\ \E z \in Zones, n \in RecNames, t \in RTypeInputs, v \in RecValues,
          ttl \in TTLs, f \in Faults(RecordSites) :
       LET r == CreateRecordRun(zone, z, n, t, v, ttl, f)
       IN /\ cmd' = "create-record"
          /\ tok' = <<[zone |-> z, name |-> n, rtype |-> t, value |-> v,
                       ttl |-> ttl]>>
          /\ yes' = FALSE
          /\ warned' = {} /\ reported' = <<>>
          /\ asked' = <<>> /\ answer' = "none"
          /\ UNCHANGED <<inst, bkt>>
          /\ calls' = r.calls
          /\ exc' = r.exc
          /\ zone' = r.zone

\* the body of update_record on zone state w: the calls made, what leaves the
\* function and the zones afterwards
UpdateRecordRun(w, z, n, t, v, ttl, f) ==
    LET chk == _zone_is_cli_owned(w, z, f)
        record_name == NormalizeName(n)
        record_value == RecordValue(t, v)
        rr == RRSet(record_name, t, ttl, record_value)
        ch == Change(UpdateRecordAction, "project-cli update-record", rr)
        ap == ProviderApply(w[z].rrs, ch)
        m == IF Raised(f, "mutate") # "ok" THEN Raised(f, "mutate")
             ELSE ap.res
    IN IF t \notin RTypeChoices
       THEN [calls |-> <<>>, exc |-> "UsageError", zone |-> w]
       ELSE IF v = <<>> \/ f.site = "session"
       THEN [calls |-> <<>>, exc |-> "SystemExit", zone |-> w]
       ELSE IF chk.exc # "none"
       THEN [calls |-> <<chk.call>>, exc |-> chk.exc, zone |-> w]
       ELSE IF ~chk.owned
       THEN [calls |-> <<chk.call>>, exc |-> "SystemExit", zone |-> w]
       ELSE [calls |-> <<chk.call,
                         Call("change_resource_record_sets", z, ch, <<>>, m)>>,
             exc |-> IF m = "ok" THEN "none" ELSE Handle(m, AllExceptions),
             zone |-> IF m = "ok" THEN [w EXCEPT ![z].rrs = ap.rrs] ELSE w]

\* route53 update-record <zone> <name> <type> <value> [<ttl>]
update_record ==
    /\ cmd = "none"
    /\ UNCHANGED procs
    /\ \E z \in Zones, n \in RecNames, t \in RTypeInputs, v \in RecValues,
          ttl \in TTLs, f \in Faults(RecordSites) :
       LET r == UpdateRecordRun(zone, z, n, t, v, ttl, f)
       IN /\ cmd' = "update-record"
          /\ tok' = <<[zone |-> z, name |-> n, rtype |-> t, value |-> v,
                       ttl |-> ttl]>>
          /\ yes' = FALSE
          /\ warned' = {} /\ reported' = <<>>
          /\ asked' = <<>> /\ answer' = "none"
          /\ UNCHANGED <<inst, bkt>>
          /\ calls' = r.calls
          /\ exc' = r.exc
          /\ zone' = r.zone

\* route53 delete-record <zone> <name> <type> <value> [<ttl>] [--yes]
delete_record ==
    /\ cmd = "none"
    /\ UNCHANGED procs
    /\ \E z \in Zones, n \in RecNames, t \in RTypeInputs, v \in RecValues,
          ttl \in TTLs, c \in Confirmations,
          f \in Faults({"tagread", "mutate"}) :
       LET chk == _zone_is_cli_owned(zone, z, f)
           rr == RRSet(NormalizeName(n), t, ttl, RecordValue(t, v))
           ch == Change(DeleteRecordAction, "project-cli delete-record", rr)
           ap == ProviderApply(zone[z].rrs, ch)
           m == IF Raised(f, "mutate") # "ok" THEN Raised(f, "mutate")
                ELSE ap.res
       IN /\ cmd' = "delete-record"
          /\ tok' = <<[zone |-> z, name |-> n, rtype |-> t, value |-> v,
                       ttl |-> ttl]>>
          /\ yes' = (c = "--yes")
          /\ warned' = {} /\ reported' = <<>> /\ asked' = <<>>
          /\ UNCHANGED <<inst, bkt>>
          /\ IF t \notin RTypeChoices
             THEN /\ calls' = <<>> /\ exc' = "UsageError" /\ zone' = zone
                  /\ answer' = "none"
             ELSE IF v = <<>> \/ f.site = "session"
             THEN /\ calls' = <<>> /\ exc' = "SystemExit" /\ zone' = zone
                  /\ answer' = "none"
             ELSE IF chk.exc # "none"
             THEN /\ calls' = <<chk.call>> /\ exc' = chk.exc /\ zone' = zone
                  /\ answer' = "none"
             ELSE IF ~chk.owned
             THEN /\ calls' = <<chk.call>> /\ exc' = "SystemExit"
                  /\ zone' = zone /\ answer' = "none"
             ELSE IF c = "no"
             THEN /\ calls' = <<chk.call>> /\ exc' = "Abort" /\ zone' = zone
                  /\ answer' = "no"
             ELSE /\ calls' = <<chk.call,
                                Call("change_resource_record_sets", z,
                                     ch, <<>>, m)>>
                  /\ exc' = IF m = "ok" THEN "none"
                            ELSE Handle(m, AllExceptions)
                  /\ zone' = IF m = "ok"
                             THEN [zone EXCEPT ![z].rrs = ap.rrs]
                             ELSE zone
                  /\ answer' = IF c = "--yes" THEN "none" ELSE "yes"

FreeZones == {z \in Zones : ~zone[z].exists}

\* route53 create-zone <name>: the provider assigns the zone id
create_zone ==
    /\ cmd = "none"
    /\ UNCHANGED procs
    /\ FreeZones # {}
    /\ \E n \in RecNames,
          f \in Faults({"create", "tagging"}) :
       LET z == CHOOSE x \in FreeZones : TRUE
           cr == Raised(f, "create")
           tg == Raised(f, "tagging")
           ccall == Call("create_hosted_zone", z, <<NormalizeName(n)>>,
                         <<>>, cr)
           tcall == Call("change_tags_for_resource", z, <<>>, <<>>, tg)
           made == [exists |-> TRUE, name |-> NormalizeName(n),
                    tags |-> IF tg = "ok"
                             THEN build_tag_list("alice", "", "") ELSE <<>>,
                    rrs |-> {}]
       IN /\ cmd' = "create-zone"
          /\ tok' = <<n>>
          /\ yes' = FALSE
          /\ warned' = {} /\ asked' = <<>> /\ answer' = "none"
          /\ UNCHANGED <<inst, bkt>>
          /\ IF f.site = "session"
             THEN /\ calls' = <<>> /\ exc' = "SystemExit" /\ zone' = zone
                  /\ reported' = <<>>
             ELSE IF cr # "ok"
             THEN /\ calls' = <<ccall>>
                  /\ exc' = Handle(cr, {"NoCredentialsError", "ClientError"})
                  /\ zone' = zone /\ reported' = <<>>
             ELSE /\ calls' = <<ccall, tcall>>
                  /\ exc' = IF tg \in {"ok", "ClientError"} THEN "none" ELSE tg
                  /\ zone' = [zone EXCEPT ![z] = made]
                  /\ reported' = IF tg \in {"ok", "ClientError"} THEN <<z>>
                                 ELSE <<>>

InitR53 ==
    /\ inst = [i \in Ids |-> NoInstance]
    /\ bkt = [b \in Buckets |-> NoBucket]
    /\ \E tags \in {<<>>, ForeignZoneTags} :
         zone = [z \in Zones |->
                   IF z = "Z2"
                   THEN [exists |-> TRUE, name |-> <<"x", DOT>>, tags |-> tags,
                         rrs |-> {RRSet(<<"w", DOT>>, "A", 300, <<"a">>)}]
                   ELSE NoZone]
    /\ ObsInit

\* ================================================================ status
\* the order in which the provider lists buckets and hosted zones
BucketOrder == <<"mine", "theirs">>
ZoneOrder == <<"Z1", "Z2">>
\* --owner values ("" = option left out)
OwnerInputs == {"", "bob"}
StatusSites == {"ec2", "s3", "s3tag", "s3objs", "r53", "r53tag", "r53rrs"}

\* the except clauses of the three collection blocks
Ec2Caught == {"NoCredentialsError", "EndpointConnectionError", "ClientError"}
S3Caught == {"NoCredentialsError", "ClientError"}
R53Caught == {"NoCredentialsError", "ClientError"}

\* "if owner and tags.get("Owner") != owner: continue"
OwnerPasses(tags, owner) == owner = "" \/ DictGet(tags, "Owner") = owner

\* EC2 block: describe_instances(Filters=[tag:CreatedBy, tag:Owner]) and
\* the count by state
Ec2Collect(w, owner, f) ==
    LET r == Raised(f, "ec2")
        seen == {i \in Ids : /\ Exists(w, i)
                             /\ HasTag(w[i].tags, "CreatedBy",
                                       DEFAULT_TAGS.CreatedBy)
                             /\ owner # "" => HasTag(w[i].tags, "Owner", owner)}
        n(sts) == Cardinality({i \in seen : w[i].st \in sts})
    IN [calls |-> <<Call("describe_instances", "", <<>>,
                         IF r = "ok" THEN SortedSeq(seen) ELSE <<>>, r)>>,
        ok |-> r = "ok",
        exc |-> IF r = "ok" \/ r \in Ec2Caught THEN "none" ELSE r,
        running |-> IF r = "ok" THEN n({"running"}) ELSE 0,
        pending |-> IF r = "ok" THEN n({"pending"}) ELSE 0,
        stopped |-> IF r = "ok" THEN n({"stopped"}) ELSE 0,
        other |-> IF r = "ok"
                  THEN Cardinality(seen) - n({"running", "pending", "stopped"})
                  ELSE 0]

\* the loop over the listed buckets: raised = "none" while the loop runs
\* on, otherwise the exception that ended it
RECURSIVE S3Loop(_, _, _, _, _)
S3Loop(bs, w, owner, deep, f) ==
    IF bs = <<>>
    THEN [calls |-> <<>>, raised |-> "none", count |-> 0, objects |-> 0]
    ELSE LET b == Head(bs)
             rest == S3Loop(Tail(bs), w, owner, deep, f)
             t == IF Raised(f, "s3tag") # "ok" THEN Raised(f, "s3tag")
                  ELSE IF w[b].tags = <<>> THEN "ClientError" ELSE "ok"
             tc == Call("get_bucket_tagging", b, <<>>, <<>>, t)
             o == Raised(f, "s3objs")
             oc == Call("list_objects_v2", b, <<>>, <<>>, o)
         IN IF t = "ClientError"
            THEN [rest EXCEPT !.calls = <<tc>> \o @]
            ELSE IF t # "ok"
            THEN [calls |-> <<tc>>, raised |-> t, count |-> 0, objects |-> 0]
            ELSE IF \/ DictGet(w[b].tags, "CreatedBy") # DEFAULT_TAGS.CreatedBy
                    \/ ~OwnerPasses(w[b].tags, owner)
            THEN [rest EXCEPT !.calls = <<tc>> \o @]
            ELSE IF ~deep
            THEN [rest EXCEPT !.calls = <<tc>> \o @, !.count = @ + 1]
            ELSE IF o = "ok"
            THEN [rest EXCEPT !.calls = <<tc, oc>> \o @, !.count = @ + 1,
                              !.objects = @ + Cardinality(w[b].objs)]
            ELSE IF o = "ClientError"
            THEN [rest EXCEPT !.calls = <<tc, oc>> \o @, !.count = @ + 1]
            ELSE [calls |-> <<tc, oc>>, raised |-> o, count |-> 1,
                  objects |-> 0]

\* S3 block: list_buckets, then the loop
S3Collect(w, owner, deep, f) ==
    LET r == Raised(f, "s3")
        lc == Call("list_buckets", "", <<>>, <<>>, r)
        loop == S3Loop(SelectSeq(BucketOrder, LAMBDA b : w[b].exists), w,
                       owner, deep, f)
        raised == IF r # "ok" THEN r ELSE loop.raised
    IN [calls |-> IF r # "ok" THEN <<lc>> ELSE <<lc>> \o loop.calls,
        ok |-> raised = "none",
        exc |-> IF raised = "none" \/ raised \in S3Caught THEN "none"
                ELSE raised,
        count |-> IF r # "ok" THEN 0 ELSE loop.count,
        objects |-> IF r # "ok" THEN 0 ELSE loop.objects]

\* the loop over the listed hosted zones; a zone without tags answers the
\* tag read with an empty list
RECURSIVE R53Loop(_, _, _, _, _)
R53Loop(zs, w, owner, deep, f) ==
    IF zs = <<>>
    THEN [calls |-> <<>>, raised |-> "none", count |-> 0, records |-> 0]
    ELSE LET z == Head(zs)
             rest == R53Loop(Tail(zs), w, owner, deep, f)
             t == Raised(f, "r53tag")
             tc == Call("list_tags_for_resource", z, <<>>, <<>>, t)
             o == Raised(f, "r53rrs")
             oc == Call("list_resource_record_sets", z, <<>>, <<>>, o)
         IN IF t = "ClientError"
            THEN [rest EXCEPT !.calls = <<tc>> \o @]
            ELSE IF t # "ok"
            THEN [calls |-> <<tc>>, raised |-> t, count |-> 0, records |-> 0]
            ELSE IF \/ DictGet(w[z].tags, "CreatedBy") # DEFAULT_TAGS.CreatedBy
                    \/ ~OwnerPasses(w[z].tags, owner)
            THEN [rest EXCEPT !.calls = <<tc>> \o @]
            ELSE IF ~deep
            THEN [rest EXCEPT !.calls = <<tc>> \o @, !.count = @ + 1]
            ELSE IF o = "ok"
            THEN [rest EXCEPT !.calls = <<tc, oc>> \o @, !.count = @ + 1,
                              !.records = @ + Cardinality(w[z].rrs)]
            ELSE IF o = "ClientError"
            THEN [rest EXCEPT !.calls = <<tc, oc>> \o @, !.count = @ + 1]
            ELSE [calls |-> <<tc, oc>>, raised |-> o, count |-> 1,
                  records |-> 0]

\* Route53 block: list_hosted_zones, then the loop
R53Collect(w, owner, deep, f) ==
    LET r == Raised(f, "r53")
        lc == Call("list_hosted_zones", "", <<>>, <<>>, r)
        loop == R53Loop(SelectSeq(ZoneOrder, LAMBDA z : w[z].exists), w,
                        owner, deep, f)
        raised == IF r # "ok" THEN r ELSE loop.raised
    IN [calls |-> IF r # "ok" THEN <<lc>> ELSE <<lc>> \o loop.calls,
        ok |-> raised = "none",
        exc |-> IF raised = "none" \/ raised \in R53Caught THEN "none"
                ELSE raised,
        count |-> IF r # "ok" THEN 0 ELSE loop.count,
        records |-> IF r # "ok" THEN 0 ELSE loop.records]

\* the "Active resources present" flag of the summary
ActiveFlag_AnyState(e, s, r) ==
    \/ (e.running + e.pending + e.stopped + e.other) > 0
    \/ s.count > 0
    \/ r.count > 0
ActiveFlag(e, s, r) ==
    \/ (e.running + e.pending) > 0
    \/ s.count > 0
    \/ r.count > 0

\* the printed summary
Summary(e, s, r) ==
    [active |-> ActiveFlag(e, s, r),
     ec2_ok |-> e.ok, ec2_running |-> e.running, ec2_pending |-> e.pending,
     ec2_stopped |-> e.stopped, ec2_other |-> e.other,
     s3_ok |-> s.ok, s3_bucket_count |-> s.count,
     s3_total_objects |-> s.objects,
     r53_ok |-> r.ok, r53_zone_count |-> r.count,
     r53_record_count |-> r.records]

\* status [--owner <owner>] [--deep]
status ==
    /\ cmd = "none"
    /\ UNCHANGED procs
    /\ \E owner \in OwnerInputs, deep \in BOOLEAN, f \in Faults(StatusSites) :
       LET e == Ec2Collect(inst, owner, f)
           s == S3Collect(bkt, owner, deep, f)
           r == R53Collect(zone, owner, deep, f)
       IN /\ cmd' = "status"
          /\ tok' = <<owner, IF deep THEN "--deep" ELSE "">>
          /\ yes' = FALSE
          /\ warned' = {} /\ asked' = <<>> /\ answer' = "none"
          /\ UNCHANGED <<inst, bkt, zone>>
          /\ IF f.site = "session"
             THEN calls' = <<>> /\ exc' = "SystemExit" /\ reported' = <<>>
             ELSE IF e.exc # "none"
             THEN calls' = e.calls /\ exc' = e.exc /\ reported' = <<>>
             ELSE IF s.exc # "none"
             THEN /\ calls' = e.calls \o s.calls
                  /\ exc' = s.exc /\ reported' = <<>>
             ELSE IF r.exc # "none"
             THEN /\ calls' = e.calls \o s.calls \o r.calls
                  /\ exc' = r.exc /\ reported' = <<>>
             ELSE /\ calls' = e.calls \o s.calls \o r.calls
                  /\ exc' = "none"
                  /\ reported' = <<Summary(e, s, r)>>

\* the worlds status is run against: instances made by the tool in any
\* lifecycle state, a foreign instance, owned and foreign buckets and zones
InitStatus ==
    /\ \E sts \in [Ids -> {"none", "pending", "running", "stopped",
                            "terminated"}],
          foreign \in BOOLEAN :
         inst = [i \in Ids |->
                   IF i = 1 /\ foreign
                   THEN [st |-> "running", tags |-> ForeignTags]
                   ELSE IF sts[i] = "none" THEN NoInstance
                   ELSE [st |-> sts[i],
                         tags |-> RunTags("alice", "", "", "web")]]
    /\ \E mine \in {"absent", "empty", "full"}, theirs \in BOOLEAN :
         bkt = [b \in Buckets |->
                  IF b = "mine" /\ mine # "absent"
                  THEN [NoBucket EXCEPT
                          !.exists = TRUE,
                          !.tags = build_tag_list("alice", "", ""),
                          !.objs = IF mine = "full" THEN {"o1"} ELSE {}]
                  ELSE IF b = "theirs" /\ theirs
                  THEN [NoBucket EXCEPT !.exists = TRUE,
                                        !.tags = ForeignBucketTags]
                  ELSE NoBucket]
    /\ \E z1 \in BOOLEAN, z2 \in BOOLEAN :
         zone = [z \in Zones |->
                   IF z = "Z1" /\ z1
                   THEN [exists |-> TRUE, name |-> <<"x", DOT>>,
                         tags |-> build_tag_list("alice", "", ""),
                         rrs |-> {RRSet(<<"w", DOT>>, "A", 300, <<"a">>)}]
                   ELSE IF z = "Z2" /\ z2
                   THEN [exists |-> TRUE, name |-> <<"y", DOT>>,
                         tags |-> ForeignZoneTags, rrs |-> {}]
                   ELSE NoZone]
    /\ ObsInit

\* ======================================================= pure functions
\* strings the functions inspect are sequences of characters
NL == "\n"
HexChars == {"0", "1", "2", "3", "4", "5", "6", "7", "8", "9",
             "a", "b", "c", "d", "e", "f", "A", "B", "C", "D", "E", "F"}
\* the {8,} of _ID_RE
MinHex == 8
\* longest run of characters after the prefix in a generated token
MaxRun == 9

\* _ID_RE = re.compile(r"^i-[a-f0-9]{8,}$", re.IGNORECASE), used with
\* .match(): "i" or "I", "-", a run of at least 8 hexadecimal characters
\* of either case, then "$", which matches at the end of the string and
\* also just before a newline that ends the string
IdReMatch(s) ==
    /\ Len(s) >= 2 + MinHex
    /\ s[1] \in {"i", "I"} /\ s[2] = "-"
    /\ \E n \in MinHex..(Len(s) - 2) :
          /\ \A k \in 3..(2 + n) : s[k] \in HexChars
          /\ \/ 2 + n = Len(s)
             \/ 2 + n = Len(s) - 1 /\ s[Len(s)] = NL

\* "if _ID_RE.match(t): ids.append(t) else: names.append(t)"
Classify(s) == IF IdReMatch(s) THEN "Identifier" ELSE "Name"

\* tokens an operator may type: a prefix, a run of characters with at most
\* one non-hexadecimal character in it, a suffix
Run(n, fill, bad) == [k \in 1..n |-> IF k = bad THEN "g" ELSE fill]
TokenStrings ==
    {pre \o Run(n, fill, bad) \o suf :
        pre \in {<<"i", "-">>, <<"I", "-">>, <<"i">>, <<"x", "-">>, <<>>},
        n \in 0..MaxRun, fill \in {"a", "0", "F"}, bad \in 0..MaxRun,
        suf \in {<<>>, <<NL>>, <<NL, NL>>, <<"g">>, <<" ">>}} \ {<<>>}

\* classification of one token, as start, stop, describe and terminate do
classify ==
    /\ cmd = "none"
    /\ UNCHANGED procs
    /\ \E s \in TokenStrings :
          /\ cmd' = "classify"
          /\ tok' = <<s>>
          /\ reported' = <<Classify(s)>>
    /\ yes' = FALSE /\ calls' = <<>> /\ exc' = "none"
    /\ warned' = {} /\ asked' = <<>> /\ answer' = "none"
    /\ UNCHANGED <<inst, bkt, zone>>

\* --owner/--project/--env values ("" = option left out or given empty)
TagInputs == {"", "alice", "demo"}

\* build_tag_list as create_instance, create_bucket and create_zone call it
build_tags ==
    /\ cmd = "none"
    /\ UNCHANGED procs
    /\ \E owner \in TagInputs, project \in TagInputs, env \in TagInputs :
          /\ cmd' = "build_tag_list"
          /\ tok' = <<owner, project, env>>
          /\ reported' = build_tag_list(owner, project, env)
    /\ yes' = FALSE /\ calls' = <<>> /\ exc' = "none"
    /\ warned' = {} /\ asked' = <<>> /\ answer' = "none"
    /\ UNCHANGED <<inst, bkt, zone>>

InitPure ==
    /\ inst = [i \in Ids |-> NoInstance]
    /\ bkt = [b \in Buckets |-> NoBucket]
    /\ zone = [z \in Zones |-> NoZone]
    /\ ObsInit

\* _resolve_tokens_to_instance_ids applied to a token list, every lookup
\* answered
resolve_tokens ==
    /\ cmd = "none"
    /\ UNCHANGED procs
    /\ \E toks \in TokenLists :
          LET rt == _resolve_tokens_to_instance_ids(inst, toks)
          IN /\ cmd' = "resolve"
             /\ tok' = toks
             /\ calls' = rt.lookups
             /\ reported' = <<[resolved_ids |-> rt.resolved_ids,
                               not_found |-> rt.not_found,
                               name_map |-> rt.name_map]>>
    /\ yes' = FALSE /\ exc' = "none"
    /\ warned' = {} /\ asked' = <<>> /\ answer' = "none"
    /\ UNCHANGED <<inst, bkt, zone>>

\* the worlds the tokens are resolved against: per identifier no instance,
\* a tool instance named web (running or terminated) or a foreign instance
\* named web
InitResolve ==
    /\ \E kinds \in [Ids -> {"none", "tool", "gone", "foreign"}] :
         inst = [i \in Ids |->
                   CASE kinds[i] = "none" -> NoInstance
                     [] kinds[i] = "tool" ->
                          [st |-> "running",
                           tags |-> RunTags("alice", "", "", "web")]
                     [] kinds[i] = "gone" ->
                          [st |-> "terminated",
                           tags |-> RunTags("alice", "", "", "web")]
                     [] kinds[i] = "foreign" ->
                          [st |-> "running", tags |-> ForeignTags]]
    /\ bkt = [b \in Buckets |-> NoBucket]
    /\ zone = [z \in Zones |-> NoZone]
    /\ ObsInit

\* the mutating commands together: each world holds resources of one
\* service, some created by the tool and some foreign
InitMut ==
    /\ \/ /\ \E sts \in [Ids -> {"running", "stopped"}], foreign \in BOOLEAN :
               inst = [i \in Ids |->
                         IF i = 1 /\ foreign
                         THEN [st |-> sts[i], tags |-> ForeignTags]
                         ELSE [st |-> sts[i],
                               tags |-> RunTags("alice", "", "", "web")]]
          /\ bkt = [b \in Buckets |-> NoBucket]
          /\ zone = [z \in Zones |-> NoZone]
       \/ /\ inst = [i \in Ids |-> NoInstance]
          /\ \E objs \in {{}, {"o1"}}, tags \in {<<>>, ForeignBucketTags} :
               bkt = [b \in Buckets |->
                        IF b = "mine"
                        THEN [NoBucket EXCEPT
                                !.exists = TRUE,
                                !.tags = build_tag_list("alice", "", ""),
                                !.objs = objs]
                        ELSE [NoBucket EXCEPT !.exists = TRUE,
                                              !.tags = tags,
                                              !.objs = objs]]
          /\ zone = [z \in Zones |-> NoZone]
       \/ /\ inst = [i \in Ids |-> NoInstance]
          /\ bkt = [b \in Buckets |-> NoBucket]
          /\ zone = [z \in Zones |->
                       IF z = "Z1"
                       THEN [exists |-> TRUE, name |-> <<"x", DOT>>,
                             tags |-> build_tag_list("alice", "", ""),
                             rrs |-> {RRSet(<<"w", DOT>>, "A", 300, <<"a">>)}]
                       ELSE [exists |-> TRUE, name |-> <<"y", DOT>>,
                             tags |-> ForeignZoneTags, rrs |-> {}]]
    /\ ObsInit

\* the create commands together: the account already holds resources the
\* tool did not create, and the provider has a few identifiers left to give
InitCreate ==
    /\ inst = [i \in Ids |->
                 IF i <= 2 THEN NoInstance
                 ELSE [st |-> "running", tags |-> ForeignTags]]
    /\ bkt = [b \in Buckets |->
                IF b = "theirs"
                THEN [NoBucket EXCEPT !.exists = TRUE,
                                      !.tags = ForeignBucketTags]
                ELSE NoBucket]
    /\ zone = [z \in Zones |->
                 IF z = "Z2"
                 THEN [exists |-> TRUE, name |-> <<"y", DOT>>,
                       tags |-> ForeignZoneTags, rrs |-> {}]
                 ELSE NoZone]
    /\ ObsInit

\* ------------------------------------------------- concurrent creates
\* two processes run "ec2 create" at the same time; each is followed from
\* its count read (cap = _count_running_cli_instances) through the check
\* "if cap >= 2" to its run_instances call, the provider serving one call
\* at a time
InitRace ==
    /\ \E sts \in [Ids -> {"none", "running", "stopped"}] :
         /\ inst = [i \in Ids |->
                      IF sts[i] = "none" THEN NoInstance
                      ELSE [st |-> sts[i],
                            tags |-> RunTags("alice", "", "", "web")]]
         /\ Cardinality({i \in Ids : sts[i] = "running"}) <= 2
    /\ bkt = [b \in Buckets |-> NoBucket]
    /\ zone = [z \in Zones |-> NoZone]
    /\ ObsInit

\* a process is started
invoke(p) ==
    /\ pc[p] = "idle"
    /\ pc' = [pc EXCEPT ![p] = "count"]
    /\ caps' = [caps EXCEPT ![p] = 0]
    /\ UNCHANGED <<inst, bkt, zone, obs>>

\* "cap = _count_running_cli_instances(session, region)"
count_read(p) ==
    /\ pc[p] = "count"
    /\ caps' = [caps EXCEPT ![p] = _count_running_cli_instances(inst)]
    /\ pc' = [pc EXCEPT ![p] = "check"]
    /\ UNCHANGED <<inst, bkt, zone, obs>>

\* "if cap >= 2: ... raise SystemExit(2)"
cap_check(p) ==
    /\ pc[p] = "check"
    /\ pc' = [pc EXCEPT ![p] = IF CapReached(caps[p]) THEN "refused" ELSE "run"]
    /\ UNCHANGED <<inst, bkt, zone, obs, caps>>

\* "_run_instance(...)": run_instances with MinCount=1, MaxCount=1
run_instance(p) ==
    /\ pc[p] = "run"
    /\ FreeIds # {}
    /\ LET new == CHOOSE i \in FreeIds : \A j \in FreeIds : i <= j
       IN inst' = [inst EXCEPT ![new] =
                     [st |-> "pending",
                      tags |-> RunTags("alice", "", "", "web")]]
    /\ pc' = [pc EXCEPT ![p] = "created"]
    /\ UNCHANGED <<bkt, zone, obs, caps>>

\* the process ends
finish(p) ==
    /\ pc[p] \in {"refused", "created"}
    /\ pc' = [pc EXCEPT ![p] = "idle"]
    /\ caps' = [caps EXCEPT ![p] = 0]
    /\ UNCHANGED <<inst, bkt, zone, obs>>

\* ---------------------------------------------------- read-only commands
\* the provider call of each listing
ListInstancesOp == "describe_instances"
ListRecordsOp_Change == "change_resource_record_sets"
ListRecordsOp == "list_resource_record_sets"

\* describe_instances(Filters=[tag:CreatedBy=project-cli (, tag:Owner)])
Listed(w, owner) ==
    SortedSeq({i \in Ids : /\ Exists(w, i)
                           /\ HasTag(w[i].tags, "CreatedBy",
                                     DEFAULT_TAGS.CreatedBy)
                           /\ owner # "" => HasTag(w[i].tags, "Owner", owner)})

\* ec2 list [--owner]: the try block ends in "except Exception"
list_instances ==
    /\ cmd = "none"
    /\ UNCHANGED procs
    /\ \E owner \in OwnerInputs, f \in Faults({"list"}) :
       LET r == Raised(f, "list")
           rows == IF r = "ok" THEN Listed(inst, owner) ELSE <<>>
       IN /\ cmd' = "list"
          /\ tok' = <<owner>>
          /\ IF f.site = "session"
             THEN calls' = <<>> /\ exc' = "SystemExit" /\ reported' = <<>>
             ELSE /\ calls' = <<Call(ListInstancesOp, "", <<>>, rows, r)>>
                  /\ exc' = IF r = "ok" THEN "none"
                            ELSE Handle(r, AllExceptions)
                  /\ reported' = rows
    /\ yes' = FALSE /\ warned' = {} /\ asked' = <<>> /\ answer' = "none"
    /\ UNCHANGED <<inst, bkt, zone>>

\* ec2 describe --all [--owner]: "owner_to_use = owner or getpass.getuser()"
describe_all ==
    /\ cmd = "none"
    /\ UNCHANGED procs
    /\ \E owner \in OwnerInputs, f \in Faults({"list"}) :
       LET r == Raised(f, "list")
           owner_to_use == IF owner = "" THEN "alice" ELSE owner
           rows == IF r = "ok" THEN Listed(inst, owner_to_use) ELSE <<>>
       IN /\ cmd' = "describe-all"
          /\ tok' = <<owner>>
          /\ IF f.site = "session"
             THEN calls' = <<>> /\ exc' = "SystemExit" /\ reported' = <<>>
             ELSE /\ calls' = <<Call("describe_instances", "", <<>>, rows, r)>>
                  /\ exc' = IF r = "ok" THEN "none"
                            ELSE Handle(r, AllExceptions)
                  /\ reported' = rows
    /\ yes' = FALSE /\ warned' = {} /\ asked' = <<>> /\ answer' = "none"
    /\ UNCHANGED <<inst, bkt, zone>>

\* s3 list [--owner]: list_buckets, then per bucket get_bucket_tagging with
\* "except ClientError: tags = {}"; the outer try ends in "except Exception"
list_buckets ==
    /\ cmd = "none"
    /\ UNCHANGED procs
    /\ \E owner \in OwnerInputs, f \in Faults({"s3", "s3tag"}) :
       LET s == S3Collect(bkt, owner, FALSE, f)
       IN /\ cmd' = "s3-list"
          /\ tok' = <<owner>>
          /\ IF f.site = "session"
             THEN calls' = <<>> /\ exc' = "SystemExit" /\ reported' = <<>>
             ELSE /\ calls' = s.calls
                  /\ exc' = IF s.ok THEN "none" ELSE "SystemExit"
                  /\ reported' = IF s.ok THEN <<s.count>> ELSE <<>>
    /\ yes' = FALSE /\ warned' = {} /\ asked' = <<>> /\ answer' = "none"
    /\ UNCHANGED <<inst, bkt, zone>>

\* route53 list-zones [--owner]: list_hosted_zones, then per zone
\* list_tags_for_resource with "except ClientError: tags = {}"; the outer
\* try ends in "except Exception"
list_zones ==
    /\ cmd = "none"
    /\ UNCHANGED procs
    /\ \E owner \in OwnerInputs, f \in Faults({"r53", "r53tag"}) :
       LET r == R53Collect(zone, owner, FALSE, f)
       IN /\ cmd' = "list-zones"
          /\ tok' = <<owner>>
          /\ IF f.site = "session"
             THEN calls' = <<>> /\ exc' = "SystemExit" /\ reported' = <<>>
             ELSE /\ calls' = r.calls
                  /\ exc' = IF r.ok THEN "none" ELSE "SystemExit"
                  /\ reported' = IF r.ok THEN <<r.count>> ELSE <<>>
    /\ yes' = FALSE /\ warned' = {} /\ asked' = <<>> /\ answer' = "none"
    /\ UNCHANGED <<inst, bkt, zone>>

\* route53 list-records <zone-id>: the tag check, then
\* list_resource_record_sets in a try block that ends in "except Exception"
list_records ==
    /\ cmd = "none"
    /\ UNCHANGED procs
    /\ \E z \in Zones, f \in Faults({"tagread", "list"}) :
       LET chk == _zone_is_cli_owned(zone, z, f)
           l == Raised(f, "list")
       IN /\ cmd' = "list-records"
          /\ tok' = <<z>>
          /\ IF f.site = "session"
             THEN calls' = <<>> /\ exc' = "SystemExit" /\ reported' = <<>>
             ELSE IF chk.exc # "none"
             THEN calls' = <<chk.call>> /\ exc' = chk.exc /\ reported' = <<>>
             ELSE IF ~chk.owned
             THEN /\ calls' = <<chk.call>> /\ exc' = "SystemExit"
                  /\ reported' = <<>>
             ELSE /\ calls' = <<chk.call,
                                Call(ListRecordsOp, z, <<>>, <<>>, l)>>
                  /\ exc' = IF l = "ok" THEN "none" ELSE "SystemExit"
                  /\ reported' = IF l = "ok"
                                 THEN <<Cardinality(zone[z].rrs)>> ELSE <<>>
    /\ yes' = FALSE /\ warned' = {} /\ asked' = <<>> /\ answer' = "none"
    /\ UNCHANGED <<inst, bkt, zone>>

\* the worlds the read-only commands are run against
InitRead ==
    /\ \E sts \in [Ids -> {"none", "running", "stopped"}], foreign \in BOOLEAN :
         inst = [i \in Ids |->
                   IF i = 1 /\ foreign
                   THEN [st |-> "running", tags |-> ForeignTags]
                   ELSE IF sts[i] = "none" THEN NoInstance
                   ELSE [st |-> sts[i],
                         tags |-> RunTags("alice", "", "", "web")]]
    /\ \E mine \in BOOLEAN :
         bkt = [b \in Buckets |->
                  IF b = "mine" /\ mine
                  THEN [NoBucket EXCEPT
                          !.exists = TRUE,
                          !.tags = build_tag_list("alice", "", ""),
                          !.objs = {"o1"}]
                  ELSE IF b = "theirs"
                  THEN [NoBucket EXCEPT !.exists = TRUE,
                                        !.tags = ForeignBucketTags]
                  ELSE NoBucket]
    /\ \E z1 \in BOOLEAN :
         zone = [z \in Zones |->
                   IF z = "Z1" /\ z1
                   THEN [exists |-> TRUE, name |-> <<"x", DOT>>,
                         tags |-> build_tag_list("alice", "", ""),
                         rrs |-> {RRSet(<<"w", DOT>>, "A", 300, <<"a">>)}]
                   ELSE IF z = "Z2"
                   THEN [exists |-> TRUE, name |-> <<"y", DOT>>,
                         tags |-> ForeignZoneTags, rrs |-> {}]
                   ELSE NoZone]
    /\ ObsInit

\* the process ends; the next invocation starts from the shell prompt with
\* no state of its own
Exit ==
    /\ cmd # "none"
    /\ cmd' = "none"
    /\ tok' = <<>>
    /\ yes' = FALSE
    /\ calls' = <<>>
    /\ exc' = "none"
    /\ warned' = {}
    /\ reported' = <<>>
    /\ asked' = <<>>
    /\ answer' = "none"
    /\ UNCHANGED <<inst, bkt, zone, procs>>

\* the provider finishes a launch: pending -> running
Settle ==
    \E i \in Ids :
        /\ cmd = "none"
        /\ inst[i].st = "pending"
        /\ inst' = [inst EXCEPT ![i].st = "running"]
        /\ UNCHANGED <<bkt, zone, obs, procs>>

Next ==
    \/ start_instance
    \/ stop_instance
    \/ terminate_instances
    \/ create_instance
    \/ describe_instance
    \/ Settle
    \/ Exit

Spec == Init /\ [][Next]_vars

NextS3 ==
    \/ create_bucket
    \/ upload_object
    \/ delete_bucket
    \/ Exit

SpecS3 == InitS3 /\ [][NextS3]_vars

NextR53 ==
    \/ create_zone
    \/ create_record
    \/ update_record
    \/ delete_record
    \/ Exit

SpecR53 == InitR53 /\ [][NextR53]_vars

NextStatus ==
    \/ status
    \/ Exit

SpecStatus == InitStatus /\ [][NextStatus]_vars

NextPure ==
    \/ classify
    \/ build_tags
    \/ Exit

SpecPure == InitPure /\ [][NextPure]_vars

NextResolve ==
    \/ resolve_tokens
    \/ Exit

SpecResolve == InitResolve /\ [][NextResolve]_vars

NextMut ==
    \/ start_instance
    \/ stop_instance
    \/ terminate_instances
    \/ upload_object
    \/ delete_bucket
    \/ create_record
    \/ update_record
    \/ delete_record
    \/ Exit

SpecMut == InitMut /\ [][NextMut]_vars

NextCreate ==
    \/ create_instance
    \/ create_bucket
    \/ create_zone
    \/ Exit

SpecCreate == InitCreate /\ [][NextCreate]_vars

NextRace ==
    \/ \E p \in Procs : invoke(p)
    \/ \E p \in Procs : count_read(p)
    \/ \E p \in Procs : cap_check(p)
    \/ \E p \in Procs : run_instance(p)
    \/ \E p \in Procs : finish(p)
    \/ Settle

SpecRace == InitRace /\ [][NextRace]_vars

NextRead ==
    \/ list_instances
    \/ describe_instance
    \/ describe_all
    \/ list_buckets
    \/ list_zones
    \/ list_records
    \/ status
    \/ Exit

SpecRead == InitRead /\ [][NextRead]_vars

\* ================================================================ claims
\* ground truth used by the properties: the provider's tag data itself
HasSentinel(tags) == \E k \in 1..Len(tags) : tags[k] = Tag("CreatedBy", "project-cli")
Active(w) == {i \in Ids : HasSentinel(w[i].tags) /\ w[i].st \in {"pending", "running"}}
Bearers(w, n) == {i \in Ids : Exists(w, i) /\ HasSentinel(w[i].tags)
                              /\ HasTag(w[i].tags, "Name", n)}
Answered(c) == \A k \in 1..Len(c) : c[k].res = "ok"
Issued(c, ops) == \E k \in 1..Len(c) : c[k].op \in ops
TransitionOps == {"start_instances", "stop_instances", "terminate_instances"}

\* C1: start/stop of an instance that the describe_instances read shows
\* without CreatedBy=project-cli exits 2, issues no start_instances or
\* stop_instances call and leaves every instance as it was; a name whose
\* only bearers lack the tag resolves to nothing, with the same result.
C1_Refused ==
    LET t == tok'[1]
    IN (/\ cmd = "none" /\ cmd' \in {"start", "stop"}
        /\ \/ /\ IsIdToken(t) /\ Exists(inst, t.id)
              /\ ~HasSentinel(inst[t.id].tags)
              /\ Issued(calls', {"describe_instances"}) /\ Answered(calls')
           \/ /\ ~IsIdToken(t) /\ Bearers(inst, t.nm) = {}
              /\ \E i \in Ids : Exists(inst, i) /\ HasTag(inst[i].tags, "Name", t.nm)
              /\ Issued(calls', {"describe_instances"}) /\ Answered(calls'))
       => (exit' = 2 /\ ~Issued(calls', TransitionOps) /\ inst' = inst)
Thm_C1 == [][C1_Refused]_vars
Wit_C1 ==
    /\ cmd \in {"start", "stop"} /\ IsIdToken(tok[1])
    /\ Exists(inst, tok[1].id) /\ ~HasSentinel(inst[tok[1].id].tags)
    /\ Len(calls) = 1 /\ calls[1].op = "describe_instances"
    /\ calls[1].res = "ok" /\ exit = 2

\* C4: terminate passes to terminate_instances exactly the resolved
\* identifiers that carry the tag; every resolved identifier without it is
\* warned about, is left untouched and does not stop the batch: with --yes,
\* a known profile and every provider call answered, the tagged ones are
\* terminated and the exit code is 0.
C4_Batch ==
    LET resolved == Range(_resolve_tokens_to_instance_ids(inst, tok').resolved_ids)
        tagged == {i \in resolved : Exists(inst, i) /\ HasSentinel(inst[i].tags)}
        untagged == {i \in resolved : Exists(inst, i) /\ ~HasSentinel(inst[i].tags)}
    IN (cmd = "none" /\ cmd' = "terminate")
       => /\ \A k \in 1..Len(calls') :
                calls'[k].op = "terminate_instances"
                => Range(calls'[k].arg) = tagged
          /\ \A i \in Ids : ~HasSentinel(inst[i].tags) => inst'[i] = inst[i]
          /\ (Issued(calls', {"terminate_instances"}) \/ exit' = 0)
                => warned' = untagged
          /\ (yes' /\ calls' # <<>> /\ Answered(calls') /\ tagged # {}
              /\ \A i \in resolved : Exists(inst, i))
                => /\ exit' = 0
                   /\ Issued(calls', {"terminate_instances"})
                   /\ \A i \in tagged : inst'[i].st = "terminated"
Thm_C4 == [][C4_Batch]_vars
Wit_C4 ==
    /\ cmd = "terminate" /\ yes /\ Len(tok) = 2
    /\ IsIdToken(tok[1]) /\ IsIdToken(tok[2])
    /\ HasSentinel(inst[tok[1].id].tags)
    /\ Exists(inst, tok[2].id) /\ ~HasSentinel(inst[tok[2].id].tags)
    /\ warned = {tok[2].id}
    /\ calls[Len(calls)].op = "terminate_instances"
    /\ calls[Len(calls)].arg = <<tok[1].id>>
    /\ inst[tok[1].id].st = "terminated" /\ inst[tok[2].id].st # "terminated"
    /\ exit = 0

\* C5: the number of CreatedBy=project-cli instances in state running or
\* pending never exceeds 2.
Cex_C5 == Cardinality(Active(inst)) <= 2

\* C6: with at least 2 tagged instances running or pending, create with
\* valid arguments issues no run_instances and no create_key_pair call,
\* leaves the instances unchanged and does not succeed; it exits 2 whenever
\* the provider answered the calls the command made.
C6_CapRefuses ==
    (/\ cmd = "none" /\ cmd' = "create"
     /\ Lower(tok'[1].nm) \in ALLOWED_INSTANCE_TYPES
     /\ Cardinality(Active(inst)) >= 2)
    => /\ ~Issued(calls', {"run_instances", "create_key_pair"})
       /\ inst' = inst
       /\ exit' # 0
       /\ Answered(calls') => exit' = 2
Thm_C7 ==
    (/\ cmd = "create" /\ tok[1].nm # ""
     /\ Lower(tok[1].nm) \notin ALLOWED_INSTANCE_TYPES)
    => (exit = 2 /\ calls = <<>>)
Wit_C7 ==
    /\ cmd = "create" /\ tok[1].nm = "m5.large" /\ exit = 2 /\ calls = <<>>

\* C8: start/stop/describe given a name borne by more than one tagged
\* instance exits 2, reports every match, issues no state-transition call
\* and changes no instance; given an identifier, the command acts on that
\* instance only.
C8_Ambiguous ==
    LET t == tok'[1]
    IN (cmd = "none" /\ cmd' \in {"start", "stop", "describe"})
       => /\ (/\ ~IsIdToken(t) /\ Cardinality(Bearers(inst, t.nm)) > 1
              /\ Len(calls') > 0 /\ Answered(calls'))
             => /\ exit' = 2
                /\ Range(reported') = Bearers(inst, t.nm)
                /\ ~Issued(calls', TransitionOps)
                /\ inst' = inst
          /\ IsIdToken(t)
             => /\ \A j \in Ids \ {t.id} : inst'[j] = inst[j]
                /\ \A k \in 1..Len(calls') :
                      calls'[k].op \in TransitionOps
                      => calls'[k].arg = <<t.id>>
Thm_C8 == [][C8_Ambiguous]_vars
Wit_C8 ==
    /\ cmd = "stop" /\ ~IsIdToken(tok[1])
    /\ Cardinality(Bearers(inst, tok[1].nm)) = 2
    /\ Range(reported) = Bearers(inst, tok[1].nm)
    /\ \E i \in Bearers(inst, tok[1].nm) : inst[i].st = "running"
    /\ exit = 2

\* C9: every command invocation ends with exit code 0 or 2, a declined
\* confirmation included.
Cex_C9 == cmd # "none" => exit \in {0, 2}

\* C10: no provider error and no unexpected exception leaves a command
\* unhandled: whenever a provider call of the invocation raised, the command
\* ends with SystemExit(2) or carries on, never with the exception itself.
Cex_C10 == exc \notin AllExceptions

\* C2: upload and bucket delete (any --force/--yes) on a bucket whose tag
\* set lacks CreatedBy=project-cli issue no upload, purge or delete_bucket
\* call, leave bucket and objects unchanged and do not succeed; the exit
\* code is 2 whenever the tag read came back (with tags or a ClientError).
MutatingS3 == {"upload_file", "object_versions.delete", "objects.delete",
               "delete_bucket"}
C2_Refused ==
    (/\ cmd = "none" /\ cmd' \in {"upload", "s3-delete"}
     /\ bkt[tok'[1]].exists /\ ~HasSentinel(bkt[tok'[1]].tags))
    => /\ ~Issued(calls', MutatingS3)
       /\ bkt' = bkt
       /\ exit' # 0
       /\ (\A k \in 1..Len(calls') : calls'[k].res \in {"ok", "ClientError"})
          => exit' = 2
C3_Refused ==
    (/\ cmd = "none"
     /\ cmd' \in {"create-record", "update-record", "delete-record"}
     /\ zone[tok'[1].zone].exists /\ ~HasSentinel(zone[tok'[1].zone].tags))
    => /\ ~Issued(calls', {"change_resource_record_sets"})
       /\ zone' = zone
       /\ exit' # 0
       /\ (\A k \in 1..Len(calls') : calls'[k].res \in {"ok", "ClientError"})
          => exit' = 2
ListingOps == {"describe_instances", "list_buckets", "list_hosted_zones"}
Cex_C11 ==
    (cmd = "status" /\ calls # <<>>)
    => /\ Len(reported) = 1
       /\ \A op \in ListingOps : Issued(calls, {op})
       /\ \A k \in 1..Len(calls) :
             calls[k].res # "ok"
             => /\ calls[k].op = "describe_instances" => ~reported[1].ec2_ok
                /\ calls[k].op = "list_buckets" => ~reported[1].s3_ok
                /\ calls[k].op = "list_hosted_zones" => ~reported[1].r53_ok

\* C12 as stated: "Active resources present" is YES exactly when the
\* counted instances of any lifecycle state, the counted buckets or the
\* counted zones number more than zero.
Cex_C12 ==
    (cmd = "status" /\ Len(reported) = 1)
    => (reported[1].active
        <=> \/ (reported[1].ec2_running + reported[1].ec2_pending
                + reported[1].ec2_stopped + reported[1].ec2_other) > 0
            \/ reported[1].s3_bucket_count > 0
            \/ reported[1].r53_zone_count > 0)
\* C12 amended: "Active resources present" is YES exactly when the counted
\* running or pending instances, the counted buckets or the counted zones
\* number more than zero; with no owner filter and every call answered that
\* is: a tagged instance is running or pending, or a bucket or a zone
\* carries CreatedBy=project-cli.
Thm_C12 ==
    (cmd = "status" /\ Len(reported) = 1)
    => /\ reported[1].active
          <=> \/ (reported[1].ec2_running + reported[1].ec2_pending) > 0
              \/ reported[1].s3_bucket_count > 0
              \/ reported[1].r53_zone_count > 0
       /\ (tok[1] = "" /\ Answered(calls))
          => (reported[1].active
              <=> \/ Active(inst) # {}
                  \/ \E b \in Buckets : HasSentinel(bkt[b].tags)
                  \/ \E z \in Zones : HasSentinel(zone[z].tags))
Wit_C12 ==
    /\ cmd = "status" /\ Len(reported) = 1 /\ tok[1] = "" /\ Answered(calls)
    /\ ~reported[1].active
    /\ reported[1].ec2_stopped > 0 /\ reported[1].ec2_other > 0
    /\ reported[1].ec2_ok /\ reported[1].s3_ok /\ reported[1].r53_ok

\* C13: in a tool-owned zone an accepted create-record or update-record
\* submits an UPSERT that replaces the record set keyed by (name, type) and
\* never appends: afterwards the zone holds exactly one record set with
\* that key, the one submitted, and every other record set is as before;
\* when the submitted record set is already there (a second identical
\* invocation) the zone is unchanged. With valid input and every call
\* answered the invocation exits 0, whatever the zone already holds.
UpsertCmds == {"create-record", "update-record"}
Submitted(i) ==
    RRSet(IF i.name # <<>> /\ i.name[Len(i.name)] = DOT THEN i.name
          ELSE Append(i.name, DOT),
          i.rtype, i.ttl, RecordValue(i.rtype, i.value))
C13_Idempotent ==
    LET i == tok'[1]
        z == i.zone
        rr == Submitted(i)
    IN (cmd = "none" /\ cmd' \in UpsertCmds)
       => /\ \A k \in 1..Len(calls') :
                calls'[k].op = "change_resource_record_sets"
                => /\ calls'[k].arg[1].Action = "UPSERT"
                   /\ calls'[k].arg[1].rr = rr
          /\ (Len(calls') = 2 /\ calls'[2].res = "ok")
             => /\ exit' = 0
                /\ rr \in zone'[z].rrs
                /\ \A x \in zone'[z].rrs :
                      (x.Name = rr.Name /\ x.Type = rr.Type) => x = rr
                /\ \A x \in zone[z].rrs \cup zone'[z].rrs :
                      (x.Name # rr.Name \/ x.Type # rr.Type)
                      => (x \in zone[z].rrs <=> x \in zone'[z].rrs)
                /\ rr \in zone[z].rrs => zone' = zone
                /\ \A y \in Zones \ {z} : zone'[y] = zone[y]
          /\ (/\ HasSentinel(zone[z].tags) /\ i.rtype \in RTypeChoices
              /\ i.value # <<>> /\ calls' # <<>> /\ Answered(calls'))
             => (exit' = 0 /\ Len(calls') = 2)
Thm_C13 == [][C13_Idempotent]_vars
Wit_C13 ==
    /\ cmd \in UpsertCmds /\ exit = 0
    /\ HasSentinel(zone[tok[1].zone].tags)
    /\ Submitted(tok[1]) \in zone[tok[1].zone].rrs
    /\ Cardinality(zone[tok[1].zone].rrs) = 2
    /\ \E x \in zone[tok[1].zone].rrs : x.Type = "TXT" /\ x.TTL = 60

\* C14: create-record and update-record are equivalent: whatever one of
\* them does on an input and a zone state (authorization decision, calls
\* and their answers, the UPSERT submitted with its name, type, TTL and
\* value, final record state, exit code), the other does on the same input
\* and state.
SameChange(a, b) ==
    /\ a.op = b.op /\ a.nm = b.nm /\ a.res = b.res
    /\ (a.op = "change_resource_record_sets"
        => (a.arg[1].Action = b.arg[1].Action /\ a.arg[1].rr = b.arg[1].rr))
SameOutcome(r, c, e, zn) ==
    /\ Len(r.calls) = Len(c)
    /\ \A k \in 1..Len(c) : SameChange(r.calls[k], c[k])
    /\ ExitOf(r.exc) = ExitOf(e)
    /\ r.zone = zn
C14_Equivalent ==
    LET i == tok'[1]
    IN /\ (cmd = "none" /\ cmd' = "create-record")
          => \E f \in Faults(RecordSites) :
                SameOutcome(UpdateRecordRun(zone, i.zone, i.name, i.rtype,
                                            i.value, i.ttl, f),
                            calls', exc', zone')
       /\ (cmd = "none" /\ cmd' = "update-record")
          => \E f \in Faults(RecordSites) :
                SameOutcome(CreateRecordRun(zone, i.zone, i.name, i.rtype,
                                            i.value, i.ttl, f),
                            calls', exc', zone')
Thm_C14 == [][C14_Equivalent]_vars
Wit_C14 ==
    /\ cmd = "update-record" /\ exit = 0 /\ tok[1].rtype = "TXT"
    /\ tok[1].name = <<"w">> /\ tok[1].value = <<"a", Q>>
    /\ Len(calls) = 2
    /\ calls[2].arg[1].Comment = "project-cli update-record"
    /\ \E x \in zone[tok[1].zone].rrs :
          x.Name = <<"w", DOT>> /\ x.Type = "TXT" /\ x.TTL = tok[1].ttl

\* C15: the TXT value that create-record, update-record and delete-record
\* submit: an input that begins and ends with a quote character goes out
\* unchanged, any other input goes out inside an added pair of quote
\* characters, and in every case what is submitted begins with a quote
\* character and ends with another one, the content between them.
RecordCmds == {"create-record", "update-record", "delete-record"}
Cex_C15 ==
    (cmd \in RecordCmds /\ tok[1].rtype = "TXT")
    => \A k \in 1..Len(calls) :
          calls[k].op = "change_resource_record_sets"
          => LET v == tok[1].value
                 sub == calls[k].arg[1].rr.Value
             IN /\ (v[1] = Q /\ v[Len(v)] = Q) => sub = v
                /\ ~(v[1] = Q /\ v[Len(v)] = Q)
                   => (Len(sub) >= Len(v) + 2 /\ sub[1] = Q
                       /\ sub[Len(sub)] = Q)
                /\ Len(sub) >= 2 /\ sub[1] = Q /\ sub[Len(sub)] = Q

\* C16: storage create with visibility public always asks for confirmation
\* before any provider call: declined, it makes no call, creates no bucket
\* and does not succeed; a create_bucket call for a public bucket is only
\* ever made after the confirmation was accepted.
PublicChoice == {"public", "Public"}
C16_Confirm ==
    (cmd = "none" /\ cmd' = "s3-create" /\ tok'[2] \in PublicChoice)
    => /\ answer' \in {"yes", "no"}
       /\ answer' = "no" => (calls' = <<>> /\ bkt' = bkt /\ exit' # 0)
       /\ calls' # <<>> => answer' = "yes"
Thm_C16 == [][C16_Confirm]_vars
Wit_C16 ==
    /\ cmd = "s3-create" /\ tok[2] = "public" /\ answer = "no"
    /\ calls = <<>> /\ ~bkt[tok[1]].exists /\ exit = 1

\* C17 as stated: a bucket reported PRIVATE has default encryption, the
\* public-access block with all four settings on and no public policy; a
\* bucket reported PUBLIC has the public-access block off and the read-only
\* policy.
Cex_C17 ==
    (cmd = "s3-create" /\ reported # <<>>)
    => LET b == bkt[tok[1]]
       IN /\ reported = <<"PRIVATE">>
             => (b.enc /\ b.pab = "blocked" /\ ~b.policy)
          /\ reported = <<"PUBLIC">> => (b.pab = "open" /\ b.policy)
\* C17 amended: the report names the visibility chosen, and the bucket
\* never gets a setting of the other visibility: a bucket reported PRIVATE
\* has no public policy and no public-access block switched off, a bucket
\* reported PUBLIC has no public-access block switched on; each setting of
\* the chosen visibility (default encryption, the block, the policy) is in
\* place exactly when its call was answered without error, so all of them
\* are when every call was.
StepOk(c, op) == \E k \in 1..Len(c) : c[k].op = op /\ c[k].res = "ok"
Thm_C17 ==
    (cmd = "s3-create" /\ reported # <<>>)
    => LET b == bkt[tok[1]]
       IN /\ reported = <<"PRIVATE">> <=> tok[2] \in {"", "private"}
          /\ reported = <<"PUBLIC">> <=> tok[2] \in PublicChoice
          /\ b.exists
          /\ b.enc <=> StepOk(calls, "put_bucket_encryption")
          /\ reported = <<"PRIVATE">>
             => /\ ~b.policy /\ b.pab # "open"
                /\ ~Issued(calls, {"put_bucket_policy"})
                /\ b.pab = "blocked" <=> StepOk(calls, "put_public_access_block")
          /\ reported = <<"PUBLIC">>
             => /\ b.pab # "blocked"
                /\ b.pab = "open" <=> StepOk(calls, "put_public_access_block")
                /\ b.policy <=> StepOk(calls, "put_bucket_policy")
Wit_C17 ==
    /\ cmd = "s3-create" /\ reported = <<"PRIVATE">>
    /\ bkt[tok[1]].enc /\ bkt[tok[1]].pab = "unset" /\ exit = 0
    /\ \E k \in 1..Len(calls) :
          calls[k].op = "put_public_access_block"
          /\ calls[k].res = "ClientError"

\* C18: once create_bucket has succeeded, a failing later step (default
\* encryption, tagging, public-access block, policy) does not keep the
\* remaining steps from being attempted, the bucket stays, and the command
\* reports the creation and exits 0.
Cex_C18 ==
    (cmd = "s3-create" /\ calls # <<>> /\ calls[1].res = "ok")
    => /\ \A op \in {"put_bucket_encryption", "put_bucket_tagging",
                     "put_public_access_block"} : Issued(calls, {op})
       /\ tok[2] \in PublicChoice => Issued(calls, {"put_bucket_policy"})
       /\ bkt[tok[1]].exists
       /\ reported # <<>>
       /\ exit = 0

\* C19: terminate without --yes issues terminate_instances only after an
\* affirmative answer, the prompt names exactly the authorized identifiers,
\* an invocation makes at most one terminate_instances call, and without an
\* affirmative answer no instance changes.
Requested(w, toks) ==
    {toks[k].id : k \in {j \in 1..Len(toks) : IsIdToken(toks[j])}}
    \cup UNION {Bearers(w, toks[k].nm) :
                   k \in {j \in 1..Len(toks) : ~IsIdToken(toks[j])}}
Authorized(w, toks) ==
    {i \in Requested(w, toks) : Exists(w, i) /\ HasSentinel(w[i].tags)}
C19_Confirmed ==
    (cmd = "none" /\ cmd' = "terminate")
    => /\ Cardinality({k \in 1..Len(calls') :
                          calls'[k].op = "terminate_instances"}) <= 1
       /\ ~yes'
          => /\ Issued(calls', {"terminate_instances"})
                => answer' \in {"y", "yes"}
             /\ answer' # "none" => Range(asked') = Authorized(inst, tok')
             /\ answer' \notin {"y", "yes"} => inst' = inst
Thm_C19 == [][C19_Confirmed]_vars
Wit_C19 ==
    /\ cmd = "terminate" /\ ~yes /\ answer = "no"
    /\ Cardinality(Range(asked)) = 2
    /\ Range(asked) = Authorized(inst, tok)
    /\ \E i \in Range(asked) : inst[i].st = "running"
    /\ ~Issued(calls, {"terminate_instances"})

\* C20: when the tokens given to terminate resolve to no identifier, or to
\* none that carries CreatedBy=project-cli, terminate does not succeed,
\* asks for no confirmation, issues no terminate_instances call and changes
\* no instance; it exits 2 whenever the provider answered its reads.
C20_NothingToDo ==
    (cmd = "none" /\ cmd' = "terminate" /\ Authorized(inst, tok') = {})
    => /\ exit' # 0
       /\ answer' = "none" /\ asked' = <<>>
       /\ ~Issued(calls', {"terminate_instances"})
       /\ inst' = inst
       /\ (\A k \in 1..Len(calls') : calls'[k].res \in {"ok", "ClientError"})
          => exit' = 2
PurgeOps == {"object_versions.delete", "objects.delete"}
C21_Force ==
    LET b == tok'[1]
    IN (cmd = "none" /\ cmd' = "s3-delete")
       => /\ tok'[2] # "--force"
             => /\ ~Issued(calls', PurgeOps)
                /\ bkt[b].objs # {} => bkt' = bkt
          /\ tok'[2] = "--force"
             => \A k \in 1..Len(calls') :
                   calls'[k].op = "delete_bucket"
                   => \E j \in 1..(k-1) : /\ calls'[j].op \in PurgeOps
                                          /\ calls'[j].res = "ok"
          /\ ~yes'
             => /\ Issued(calls', PurgeOps \cup {"delete_bucket"})
                   => answer' = "yes"
                /\ answer' # "yes" => bkt' = bkt
Thm_C21 == [][C21_Force]_vars
Wit_C21 ==
    /\ cmd = "s3-delete" /\ tok[2] = "--force" /\ ~yes /\ answer = "yes"
    /\ Len(calls) = 4
    /\ calls[2].op = "object_versions.delete" /\ calls[2].res = "ClientError"
    /\ calls[3].op = "objects.delete" /\ calls[3].res = "ok"
    /\ calls[4].op = "delete_bucket" /\ calls[4].res = "ok"
    /\ ~bkt[tok[1]].exists /\ exit = 0

\* C22: a token is treated as an identifier exactly when it is "i-"
\* followed by at least 8 hexadecimal characters and nothing else (letters
\* of either case, as the pattern ignores case); every other non-empty
\* string is treated as a name.
IdShape(s) ==
    /\ Len(s) >= 10
    /\ s[1] \in {"i", "I"} /\ s[2] = "-"
    /\ \A k \in 3..Len(s) : s[k] \in HexChars
Cex_C22 ==
    cmd = "classify"
    => (reported = <<"Identifier">> <=> IdShape(tok[1]))

\* C23: build_tag_list returns exactly one CreatedBy=project-cli pair, then
\* exactly one Owner pair whose value is not empty, then a Project pair iff
\* a project is given, then an Environment pair iff an environment is
\* given, and no key twice.
KeysOf(tags) == [k \in 1..Len(tags) |-> tags[k].Key]
Cex_C23 ==
    cmd = "build_tag_list"
    => /\ KeysOf(reported)
          = <<"CreatedBy", "Owner">>
            \o (IF tok[2] # "" THEN <<"Project">> ELSE <<>>)
            \o (IF tok[3] # "" THEN <<"Environment">> ELSE <<>>)
       /\ reported[1].Value = "project-cli"
       /\ reported[2].Value # ""
       /\ tok[2] # "" => reported[3].Value = tok[2]
       /\ tok[3] # "" => reported[Len(reported)].Value = tok[3]

\* C24 as stated: the resolved identifiers have no duplicates, are exactly
\* the identifier tokens plus every identifier matched by a name token, in
\* the order in which each is first seen when the tokens are processed in
\* the order given; the unmatched list holds exactly the names that matched
\* no instance.
NoDuplicates(q) == \A j, k \in 1..Len(q) : q[j] = q[k] => j = k
RECURSIVE FirstSeen(_, _, _)
FirstSeen(w, toks, seen) ==
    IF toks = <<>> THEN <<>>
    ELSE LET here == IF IsIdToken(Head(toks)) THEN <<Head(toks).id>>
                     ELSE SortedSeq(Bearers(w, Head(toks).nm))
             fresh == SelectSeq(here, LAMBDA i : i \notin seen)
         IN fresh \o FirstSeen(w, Tail(toks), seen \cup Range(here))
Unmatched(w, toks) ==
    {toks[k].nm : k \in {j \in 1..Len(toks) :
                            ~IsIdToken(toks[j]) /\ Bearers(w, toks[j].nm) = {}}}
Cex_C24 ==
    cmd = "resolve"
    => /\ NoDuplicates(reported[1].resolved_ids)
       /\ Range(reported[1].resolved_ids) = Requested(inst, tok)
       /\ reported[1].resolved_ids = FirstSeen(inst, tok, {})
       /\ Range(reported[1].not_found) = Unmatched(inst, tok)
\* C24 amended: the resolved identifiers have no duplicates and are exactly
\* the identifier tokens plus every identifier matched by a name token;
\* the identifier tokens come first, in the order given, followed by the
\* identifiers matched by the name tokens in the order of those tokens,
\* each identifier at its first occurrence in that sequence; the unmatched
\* list holds exactly the names that matched no instance.
IdsThenNames(w, toks) ==
    FirstSeen(w, SelectSeq(toks, LAMBDA t : IsIdToken(t))
                 \o SelectSeq(toks, LAMBDA t : ~IsIdToken(t)), {})
Thm_C24 ==
    cmd = "resolve"
    => /\ NoDuplicates(reported[1].resolved_ids)
       /\ Range(reported[1].resolved_ids) = Requested(inst, tok)
       /\ reported[1].resolved_ids = IdsThenNames(inst, tok)
       /\ Range(reported[1].not_found) = Unmatched(inst, tok)
Wit_C24 ==
    /\ cmd = "resolve" /\ tok = <<NameTok("web"), IdTok(3)>>
    /\ reported[1].resolved_ids = <<3, 1, 2>>
    /\ reported[1].not_found = <<>>

\* C25 as stated: in every invocation of a mutating command, each mutating
\* provider call is preceded in the same invocation by a read of the
\* target's (or owning bucket's/zone's) tags that showed the attribution
\* tag, with no other provider call between that read and the mutating
\* call; the read reflects the provider's state at this invocation.
MutatingCmds == {"start", "stop", "terminate", "upload", "s3-delete",
                 "create-record", "update-record", "delete-record"}
MutatingOps == TransitionOps \cup MutatingS3 \cup {"change_resource_record_sets"}
FreshTagRead(r, m) ==
    /\ r.res = "ok"
    /\ \/ /\ m.op \in TransitionOps
          /\ r.op = "describe_instances" /\ r.nm = "" /\ r.arg # <<>>
          /\ Range(m.arg) \subseteq Range(r.arg)
          /\ Range(m.arg) \subseteq Range(r.ret)
          /\ \A i \in Range(m.arg) : HasSentinel(inst[i].tags)
       \/ /\ m.op \in MutatingS3
          /\ r.op = "get_bucket_tagging" /\ r.nm = m.nm
          /\ HasSentinel(bkt[m.nm].tags)
       \/ /\ m.op = "change_resource_record_sets"
          /\ r.op = "list_tags_for_resource" /\ r.nm = m.nm
          /\ HasSentinel(zone[m.nm].tags)
Mutations(c) == {k \in 1..Len(c) : c[k].op \in MutatingOps}
C25_EveryCall ==
    (cmd = "none" /\ cmd' \in MutatingCmds)
    => \A k \in Mutations(calls') :
          k > 1 /\ FreshTagRead(calls'[k-1], calls'[k])
Cex_C25 == [][C25_EveryCall]_vars
\* C25 amended: in every invocation of a mutating command, the first
\* mutating provider call is immediately preceded, in the same invocation,
\* by a read of the target's (or owning bucket's/zone's) tags that showed
\* the attribution tag and reflects the provider's state at this
\* invocation; the mutating calls after the first one (the purge fallback
\* and delete_bucket of a forced bucket delete) act on the same target and
\* follow the first one directly, without another read.
C25_FirstCall ==
    (cmd = "none" /\ cmd' \in MutatingCmds)
    => \A k \in Mutations(calls') :
          /\ k > 1
          /\ \/ FreshTagRead(calls'[k-1], calls'[k])
             \/ /\ k - 1 \in Mutations(calls')
                /\ cmd' = "s3-delete" /\ tok'[2] = "--force"
                /\ calls'[k-1].nm = calls'[k].nm
Thm_C25 == [][C25_FirstCall]_vars
Wit_C25 ==
    /\ cmd = "s3-delete" /\ tok = <<"mine", "--force">>
    /\ Len(calls) = 3
    /\ calls[1].op = "get_bucket_tagging" /\ calls[1].res = "ok"
    /\ calls[2].op = "object_versions.delete" /\ calls[2].res = "ok"
    /\ calls[3].op = "delete_bucket" /\ calls[3].res = "ok"
    /\ ~bkt["mine"].exists

\* C26 as stated: every resource the tool reports as created (instance,
\* bucket, hosted zone) carries CreatedBy=project-cli when the create
\* command returns.
Launched(c) ==
    UNION {Range(c[k].ret) : k \in {j \in 1..Len(c) :
                                      /\ c[j].op = "run_instances"
                                      /\ c[j].res = "ok"}}
Cex_C26 ==
    /\ (cmd = "create" /\ exit = 0)
       => \A i \in Launched(calls) : HasSentinel(inst[i].tags)
    /\ (cmd = "s3-create" /\ reported # <<>>)
       => HasSentinel(bkt[tok[1]].tags)
    /\ (cmd = "create-zone" /\ reported # <<>>)
       => HasSentinel(zone[reported[1]].tags)
\* C26 amended: every instance reported as created carries
\* CreatedBy=project-cli; a bucket or hosted zone reported as created
\* carries it exactly when its tagging call (put_bucket_tagging,
\* change_tags_for_resource) was answered without error, and is reported
\* as created, with exit code 0, also when that call failed with a provider
\* error.
Thm_C26 ==
    /\ (cmd = "create" /\ exit = 0)
       => /\ Launched(calls) # {}
          /\ \A i \in Launched(calls) : HasSentinel(inst[i].tags)
    /\ (cmd = "s3-create" /\ reported # <<>>)
       => /\ exit = 0
          /\ HasSentinel(bkt[tok[1]].tags) <=> StepOk(calls, "put_bucket_tagging")
    /\ (cmd = "create-zone" /\ reported # <<>>)
       => /\ exit = 0
          /\ HasSentinel(zone[reported[1]].tags)
             <=> StepOk(calls, "change_tags_for_resource")
Wit_C26 ==
    /\ cmd = "s3-create" /\ reported = <<"PRIVATE">> /\ exit = 0
    /\ \E k \in 1..Len(calls) : /\ calls[k].op = "put_bucket_tagging"
                                /\ calls[k].res = "ClientError"
    /\ bkt[tok[1]].exists /\ ~HasSentinel(bkt[tok[1]].tags)
    /\ \E i \in Ids : inst[i].st = "pending" /\ HasSentinel(inst[i].tags)
    /\ \E z \in Zones : zone[z].exists /\ HasSentinel(zone[z].tags)

\* C27: when two create invocations run concurrently, interleaving their
\* count read and their run_instances call, the number of
\* CreatedBy=project-cli instances in state running or pending does not
\* exceed 2 after either of them has created its instance.
Cex_C27 ==
    (\E p \in Procs : pc[p] = "created") => Cardinality(Active(inst)) <= 2

\* C28: whenever the read of a bucket's or zone's tags ends in an error,
\* upload, bucket delete, record upsert and record delete issue no mutating
\* call, leave buckets, objects, zones and records as they were and do not
\* succeed; when the error is a provider error (no tag set, access denied,
\* resource missing) the command is refused with exit code 2.
TagReadOps == {"get_bucket_tagging", "list_tags_for_resource"}
GuardedCmds == {"upload", "s3-delete", "create-record", "update-record",
                "delete-record"}
FailedReads(c) == {k \in 1..Len(c) : c[k].op \in TagReadOps /\ c[k].res # "ok"}
C28_FailClosed ==
    (cmd = "none" /\ cmd' \in GuardedCmds /\ FailedReads(calls') # {})
    => /\ ~Issued(calls', MutatingOps)
       /\ bkt' = bkt /\ zone' = zone
       /\ exit' # 0
       /\ (\A k \in FailedReads(calls') : calls'[k].res = "ClientError")
          => exit' = 2
Thm_C28 == [][C28_FailClosed]_vars
Wit_C28 ==
    /\ cmd = "upload" /\ tok[1] = "mine"
    /\ bkt["mine"].exists /\ HasSentinel(bkt["mine"].tags)
    /\ Len(calls) = 1 /\ calls[1].op = "get_bucket_tagging"
    /\ calls[1].res = "ClientError"
    /\ exit = 2

\* C29: a compute create invocation that ends with a failure exit code has
\* created no instance and no key pair.
Cex_C29 ==
    (cmd = "create" /\ exit # 0)
    => /\ Launched(calls) = {}
       /\ ~StepOk(calls, "create_key_pair")

\* C30: the read-only commands (ec2 list, ec2 describe with a target or
\* with --all, s3 list, route53 list-zones and list-records, status with or
\* without --deep) issue only read calls on every path, error paths
\* included, and leave instances, buckets, objects, zones, records and tags
\* unchanged.
ReadOnlyCmds == {"list", "describe", "describe-all", "s3-list", "list-zones",
                 "list-records", "status"}
ReadOps == {"describe_instances", "list_buckets", "get_bucket_tagging",
            "list_objects_v2", "list_hosted_zones", "list_tags_for_resource",
            "list_resource_record_sets"}
C30_ReadOnly ==
    (cmd = "none" /\ cmd' \in ReadOnlyCmds)
    => /\ \A k \in 1..Len(calls') : calls'[k].op \in ReadOps
       /\ ~Issued(calls', MutatingOps)
       /\ inst' = inst /\ bkt' = bkt /\ zone' = zone
Thm_C30 == [][C30_ReadOnly]_vars
Wit_C30 ==
    /\ cmd = "list-records" /\ tok = <<"Z1">> /\ exit = 2
    /\ Len(calls) = 2
    /\ calls[1].op = "list_tags_for_resource" /\ calls[1].res = "ok"
    /\ calls[2].op = "list_resource_record_sets"
    /\ calls[2].res = "ClientError"
    /\ zone["Z1"].rrs # {}
====
